---- MODULE Spec2Model ----
(***************************************************************************)
(* NEAT evolutionary engine of NEATNNG.py: the InnovationManager, the       *)
(* FeedforwardGenome with its structural mutation operators, mutate() and   *)
(* crossover().                                                             *)
(*                                                                          *)
(* Python values are represented as follows.                                *)
(*   - None in an id or number position is the integer None (-1); ids and   *)
(*     innovation numbers are never negative in the program.                *)
(*   - A dict is a function; its key set is the DOMAIN.                     *)
(*   - A gene tuple (type, activation, innovation[, bias]) is a tuple of    *)
(*     length 3 or 4, fields at positions 1..4 (Python 0..3).               *)
(*   - A connection key (in, out, innovation) is a 3-tuple.                 *)
(*   - Reals (weights, biases) are integers in units of 1/WeightScale.      *)
(*   - fitness is <<>> for None and <<v>> for the number v.                 *)
(*   - A call of the random module is a choice from the sample sets held    *)
(*     in the variable draws, fixed by the initial state of a run.          *)
(***************************************************************************)
EXTENDS Integers, Sequences, FiniteSets, TLC

VARIABLES
    im,      \* the InnovationManager shared by every call path
    genome,  \* the FeedforwardGenome under observation
    op,      \* the last call of SpecIM and of the object-level specifications:
             \* [name, args, ret]
    draws,   \* what the random module can return in this run
    heap,    \* the genome objects and the dicts and lists they refer to
    population,  \* the Population object: its list of genome references
    stagnation   \* the StagnationManager with the species it tracks

vars == <<im, genome, op, draws, heap, population, stagnation>>

\* The variables of the object-level specifications, left alone by the
\* single-genome ones.
objects == <<heap, population, stagnation>>

\* ------------------------------------------------------------------ bounds

\* next_innovation_number never exceeds this in the genome specifications.
MaxInnovation == 9

\* next_innovation_number never exceeds this in SpecIM.
MaxIMInnovation == 5

\* next_genome_id_counter never exceeds this.
MaxGenomeId == 4

\* next_innovation_number never exceeds this in SpecLineage.
MaxLineageInnovation == 15

\* A real r is the integer r * WeightScale.
WeightScale == 10

\* ------------------------------------------------------- InnovationManager

None == -1

\* InnovationManager.__init__
NewInnovationManager ==
    [innovations |-> <<>>,
     next_innovation_number |-> 1,
     next_genome_id_counter |-> 0]

\* self.innovations[key] = number
DictSet(d, key, value) ==
    [k \in (DOMAIN d) \cup {key} |-> IF k = key THEN value ELSE d[k]]

\* InnovationManager.get_innovation_number: dict.get, None when absent.
get_innovation_number(m, innovation_type, gene_in_id, gene_out_id) ==
    LET key == <<innovation_type, gene_in_id, gene_out_id>>
    IN  IF key \in DOMAIN m.innovations THEN m.innovations[key] ELSE None

\* InnovationManager.create_innovation with a counter that is not advanced.
create_innovation_no_advance(m, innovation_type, gene_in_id, gene_out_id, innovation_number) ==
    LET n == IF innovation_number = None
             THEN m.next_innovation_number
             ELSE innovation_number
    IN  [im  |-> [m EXCEPT !.innovations =
                      DictSet(@, <<innovation_type, gene_in_id, gene_out_id>>, n)],
         ret |-> n]

\* InnovationManager.create_innovation: the manager after the call and the
\* number returned.
create_innovation(m, innovation_type, gene_in_id, gene_out_id, innovation_number) ==
    LET n  == IF innovation_number = None
              THEN m.next_innovation_number
              ELSE innovation_number
        m1 == IF innovation_number = None
              THEN [m EXCEPT !.next_innovation_number = @ + 1]
              ELSE m
    IN  [im  |-> [m1 EXCEPT !.innovations =
                      DictSet(@, <<innovation_type, gene_in_id, gene_out_id>>, n)],
         ret |-> n]

\* InnovationManager.next_genome_id: returns the counter and advances it.
next_genome_id(m) ==
    [im  |-> [m EXCEPT !.next_genome_id_counter = @ + 1],
     ret |-> m.next_genome_id_counter]

\* InnovationManager.increment_genome_id
increment_genome_id(m) ==
    [m EXCEPT !.next_genome_id_counter = @ + 1]

\* ------------------------------------------------------- FeedforwardGenome

\* del d[k] for every k of ks
DictDel(d, ks) == [k \in (DOMAIN d) \ ks |-> d[k]]

\* gene_info[0], gene_info[2]
GeneType(gene_info) == gene_info[1]
GeneInnovation(gene_info) == gene_info[3]

\* random.uniform(-power, power): power and the result in units of
\* 1/WeightScale, u a sample of the unit interval [-1, 1].
Scaled(power, u) == (power * u) \div WeightScale

\* 1.0
One == WeightScale

\* FeedforwardGenome.add_node: raises before any change without an
\* innovation number; otherwise stores the gene under self.next_node_id.
\* bias_sample is the value random.uniform(-1, 1) returns.
add_node(g, new_type, activation, innovation_number, bias_sample) ==
    IF innovation_number = None
    THEN g
    ELSE LET initial_bias == IF new_type # "input" THEN bias_sample ELSE 0
         IN  [g EXCEPT
                !.genes = DictSet(@, g.next_node_id,
                                  <<new_type, activation, innovation_number, initial_bias>>),
                !.next_node_id = @ + 1]

\* FeedforwardGenome.add_connection: weight is <<>> for None, <<w>> for w;
\* weight_sample is the value random.uniform(-1, 1) returns.
add_connection(g, in_node_id, out_node_id, weight, innovation_number, weight_sample) ==
    LET key == <<in_node_id, out_node_id, innovation_number>>
    IN  IF key \notin DOMAIN g.connections /\ innovation_number # None
        THEN [g EXCEPT !.connections =
                 DictSet(@, key, IF weight # <<>> THEN weight[1] ELSE weight_sample)]
        ELSE g

\* The three node loops of FeedforwardGenome.__init__, from node k on:
\* act and bias are the random choices per node id.
RECURSIVE InitNodes(_, _, _, _, _, _)
InitNodes(w, k, num_inputs, num_hidden, num_outputs, rnd) ==
    IF k >= num_inputs + num_hidden + num_outputs
    THEN w
    ELSE LET r == create_innovation(w.im, "gene", w.g.next_node_id, None, None)
             id == w.g.next_node_id
             gene == IF k < num_inputs
                     THEN <<"input", "identity", r.ret>>
                     ELSE IF k < num_inputs + num_hidden
                          THEN <<"hidden", rnd.act[id], r.ret, rnd.bias[id]>>
                          ELSE <<"output", "identity", r.ret, rnd.bias[id]>>
             g1 == [w.g EXCEPT
                      !.genes = DictSet(@, id, gene),
                      !.output_nodes = IF k >= num_inputs + num_hidden
                                       THEN Append(@, id) ELSE @,
                      !.next_node_id = @ + 1]
         IN  InitNodes([g |-> g1, im |-> r.im], k + 1,
                       num_inputs, num_hidden, num_outputs, rnd)

\* The connection loop of FeedforwardGenome.__init__, from i on: every
\* outcome of the random.choice calls.
RECURSIVE InitConnections(_, _, _)
InitConnections(w, i, limit) ==
    IF i >= limit
    THEN {w}
    ELSE LET step ==
               { IF /\ GeneType(w.g.genes[i]) # "output"
                    /\ GeneType(w.g.genes[out_node]) # "input"
                    /\ i # out_node
                 THEN LET r == create_innovation(w.im, "connection", i, out_node, None)
                      IN  [g  |-> [w.g EXCEPT !.connections =
                                      DictSet(@, <<i, out_node, r.ret>>, weight)],
                           im |-> r.im]
                 ELSE w
                 : out_node \in DOMAIN w.g.genes, weight \in draws.uniform }
         IN  UNION { InitConnections(w1, i + 1, limit) : w1 \in step }

\* FeedforwardGenome.__init__: every genome (with the manager it leaves)
\* the constructor can build.
FeedforwardGenome(genome_id, num_inputs, num_outputs, m, initial_hidden_nodes) ==
    LET hidden == num_inputs .. (num_inputs + initial_hidden_nodes - 1)
        biased == num_inputs .. (num_inputs + initial_hidden_nodes + num_outputs - 1)
        empty  == [genome_id |-> genome_id, genes |-> <<>>, connections |-> <<>>,
                   next_node_id |-> 0, fitness |-> <<>>, output_nodes |-> <<>>]
    IN  UNION { InitConnections(
                    InitNodes([g |-> empty, im |-> m], 0,
                              num_inputs, initial_hidden_nodes, num_outputs,
                              [act |-> act, bias |-> bias]),
                    0, num_inputs + initial_hidden_nodes)
                : act \in [hidden -> draws.activation],
                  bias \in [biased -> draws.uniform] }

\* get_num_inputs, get_num_outputs, get_num_hidden_nodes
get_num_inputs(g) ==
    Cardinality({n \in DOMAIN g.genes : GeneType(g.genes[n]) = "input"})
get_num_outputs(g) == Len(g.output_nodes)
get_num_hidden_nodes(g) ==
    Cardinality({n \in DOMAIN g.genes : GeneType(g.genes[n]) = "hidden"})

\* mutate_add_node with the two weights exchanged: the original weight on
\* the connection into the new node, 1.0 on the one out of it.
SplitConnectionSwapped(w, connection_to_split, activation, bias_sample) ==
    LET weight == w.g.connections[connection_to_split]
        in_node == connection_to_split[1]
        out_node == connection_to_split[2]
        g1 == [w.g EXCEPT !.connections = DictDel(@, {connection_to_split})]
        new_node_id == g1.next_node_id
        g2 == [g1 EXCEPT !.next_node_id = @ + 1]
        r1 == create_innovation(w.im, "gene", new_node_id, None, None)
        g3 == add_node(g2, "hidden", activation, r1.ret, bias_sample)
        r2 == create_innovation(r1.im, "connection", in_node, new_node_id, None)
        g4 == add_connection(g3, in_node, new_node_id, <<weight>>, r2.ret, 0)
        r3 == create_innovation(r2.im, "connection", new_node_id, out_node, None)
        g5 == add_connection(g4, new_node_id, out_node, <<One>>, r3.ret, 0)
    IN  [g |-> g5, im |-> r3.im]

\* mutate_add_node once random.choice picked connection_to_split and the
\* activation, and random.uniform the bias.
SplitConnection(w, connection_to_split, activation, bias_sample) ==
    LET weight == w.g.connections[connection_to_split]
        in_node == connection_to_split[1]
        out_node == connection_to_split[2]
        g1 == [w.g EXCEPT !.connections = DictDel(@, {connection_to_split})]
        new_node_id == g1.next_node_id
        g2 == [g1 EXCEPT !.next_node_id = @ + 1]
        r1 == create_innovation(w.im, "gene", new_node_id, None, None)
        g3 == add_node(g2, "hidden", activation, r1.ret, bias_sample)
        r2 == create_innovation(r1.im, "connection", in_node, new_node_id, None)
        g4 == add_connection(g3, in_node, new_node_id, <<One>>, r2.ret, 0)
        r3 == create_innovation(r2.im, "connection", new_node_id, out_node, None)
        g5 == add_connection(g4, new_node_id, out_node, <<weight>>, r3.ret, 0)
    IN  [g |-> g5, im |-> r3.im]

\* FeedforwardGenome.mutate_add_node: every outcome.
mutate_add_node(w, possible_in_nodes, possible_out_nodes) ==
    IF DOMAIN w.g.connections = {}
    THEN {w}
    ELSE { SplitConnection(w, c, a, b) :
             c \in DOMAIN w.g.connections, a \in draws.activation, b \in draws.uniform }

\* FeedforwardGenome.mutate_add_connection: every outcome.
mutate_add_connection(w, possible_in_nodes, possible_out_nodes) ==
    IF possible_in_nodes = {} \/ possible_out_nodes = {}
    THEN {w}
    ELSE { LET connection_exists ==
                 \E k \in DOMAIN w.g.connections : <<k[1], k[2]>> = <<in_node, out_node>>
           IN  IF in_node # out_node /\ ~connection_exists /\ in_node < out_node
               THEN LET r == create_innovation(w.im, "connection", in_node, out_node, None)
                    IN  [g  |-> add_connection(w.g, in_node, out_node, <<>>, r.ret, s),
                         im |-> r.im]
               ELSE w
           : in_node \in possible_in_nodes, out_node \in possible_out_nodes,
             s \in draws.uniform }

\* mutate_eliminate_node that removes the connections into the node and
\* leaves those out of it.
mutate_eliminate_node_incoming(g) ==
    LET hidden_nodes == {n \in DOMAIN g.genes : GeneType(g.genes[n]) = "hidden"}
    IN  IF hidden_nodes = {}
        THEN {g}
        ELSE { LET connected_in == {k \in DOMAIN g.connections : k[2] = node_id}
               IN  [g EXCEPT
                      !.connections = DictDel(@, connected_in),
                      !.genes = DictDel(@, {node_id})]
               : node_id \in hidden_nodes }

\* FeedforwardGenome.mutate_eliminate_node: every outcome; the shuffle
\* decides which hidden node is first.
mutate_eliminate_node(g) ==
    LET hidden_nodes == {n \in DOMAIN g.genes : GeneType(g.genes[n]) = "hidden"}
    IN  IF hidden_nodes = {}
        THEN {g}
        ELSE { LET connected_in  == {k \in DOMAIN g.connections : k[2] = node_id}
                   connected_out == {k \in DOMAIN g.connections : k[1] = node_id}
               IN  [g EXCEPT
                      !.connections = DictDel(@, connected_in \cup connected_out),
                      !.genes = DictDel(@, {node_id})]
               : node_id \in hidden_nodes }

\* FeedforwardGenome.prune_orphan_nodes
prune_orphan_nodes(g) ==
    LET orphan_nodes ==
            {node \in DOMAIN g.genes :
                /\ ~\E k \in DOMAIN g.connections : k[1] = node
                /\ ~\E k \in DOMAIN g.connections : k[2] = node}
    IN  [g EXCEPT
           !.genes = DictDel(@, orphan_nodes),
           !.connections =
               DictDel(@, {k \in DOMAIN g.connections :
                              k[1] \in orphan_nodes \/ k[2] \in orphan_nodes})]

\* The test of mutate_eliminate_connection looking at the source of the
\* removed connection only.
RemovalKept_source_only(g, key) ==
    LET in_node == key[1]
        out_node == key[2]
        rest == (DOMAIN g.connections) \ {key}
        in_has_other_outputs ==
            \E k \in rest : (k[1] # in_node \/ k[2] # out_node) /\ k[1] = in_node
        in_is_hidden == GeneType(g.genes[in_node]) = "hidden"
    IN  ~(in_is_hidden /\ ~in_has_other_outputs)

\* The test mutate_eliminate_connection makes after popping key: the
\* removal is kept unless it orphans a hidden endpoint.
RemovalKept(g, key) ==
    LET in_node == key[1]
        out_node == key[2]
        rest == (DOMAIN g.connections) \ {key}
        in_has_other_outputs ==
            \E k \in rest : (k[1] # in_node \/ k[2] # out_node) /\ k[1] = in_node
        out_has_other_inputs ==
            \E k \in rest : (k[1] # in_node \/ k[2] # out_node) /\ k[2] = out_node
        in_is_hidden == GeneType(g.genes[in_node]) = "hidden"
        out_is_hidden == GeneType(g.genes[out_node]) = "hidden"
    IN  ~(\/ in_is_hidden /\ ~in_has_other_outputs
          \/ out_is_hidden /\ ~out_has_other_inputs)

\* mutate_eliminate_connection that keeps the removal of the first
\* candidate whatever it orphans.
mutate_eliminate_connection_unsafe(g) ==
    LET candidates ==
            {k \in DOMAIN g.connections :
                k[1] \in DOMAIN g.genes /\ k[2] \in DOMAIN g.genes}
    IN  IF candidates = {}
        THEN {g}
        ELSE { prune_orphan_nodes([g EXCEPT !.connections = DictDel(@, {k})])
               : k \in candidates }

\* FeedforwardGenome.mutate_eliminate_connection: every outcome. A
\* candidate with an endpoint outside genes is skipped, a reverted removal
\* restores the dict, so the result is the removal of the first candidate
\* of the shuffled order that is kept, followed by prune_orphan_nodes.
mutate_eliminate_connection(g) ==
    LET candidates ==
            {k \in DOMAIN g.connections :
                /\ k[1] \in DOMAIN g.genes
                /\ k[2] \in DOMAIN g.genes
                /\ RemovalKept(g, k)}
    IN  IF candidates = {}
        THEN {g}
        ELSE { prune_orphan_nodes([g EXCEPT !.connections = DictDel(@, {k})])
               : k \in candidates }

\* The loop of prune_disconnected_inputs over the input nodes not in
\* connected_sources, in dict order (ascending id).
RECURSIVE ReconnectInputs(_, _)
ReconnectInputs(w, todo) ==
    IF todo = {}
    THEN {w}
    ELSE LET input_node == CHOOSE n \in todo : \A o \in todo : n <= o
             targets == {n \in DOMAIN w.g.genes :
                            GeneType(w.g.genes[n]) \in {"hidden", "output"}}
             step ==
               IF targets = {}
               THEN {w}
               ELSE { LET r == create_innovation(w.im, "connection", input_node, target, None)
                      IN  [g  |-> add_connection(w.g, input_node, target, <<>>, r.ret, s),
                           im |-> r.im]
                      : target \in targets, s \in draws.uniform }
         IN  UNION { ReconnectInputs(w1, todo \ {input_node}) : w1 \in step }

\* FeedforwardGenome.prune_disconnected_inputs: every outcome.
prune_disconnected_inputs(w) ==
    LET input_nodes == {n \in DOMAIN w.g.genes : GeneType(w.g.genes[n]) = "input"}
        connected_sources == {k[1] : k \in DOMAIN w.g.connections}
    IN  ReconnectInputs(w, input_nodes \ connected_sources)

\* FeedforwardGenome.mutate_weights: every outcome; rate and power in
\* units of 1/WeightScale.
mutate_weights(g, mutation_rate, weight_mutation_power) ==
    LET steps == {0} \cup (IF mutation_rate > 0
                           THEN {Scaled(weight_mutation_power, u) : u \in draws.delta}
                           ELSE {})
    IN  { [g EXCEPT !.connections = [k \in DOMAIN @ |-> @[k] + d[k]]]
          : d \in [DOMAIN g.connections -> steps] }

\* FeedforwardGenome.mutate_biases: every outcome.
mutate_biases(g, mutation_rate, bias_mutation_power) ==
    LET steps == {0} \cup (IF mutation_rate > 0
                           THEN {Scaled(bias_mutation_power, u) : u \in draws.delta}
                           ELSE {})
        mutable == {n \in DOMAIN g.genes :
                       GeneType(g.genes[n]) # "input" /\ Len(g.genes[n]) > 3}
    IN  { [g EXCEPT !.genes =
              [n \in DOMAIN @ |->
                  IF n \in mutable
                  THEN <<@[n][1], @[n][2], @[n][3], @[n][4] + d[n]>>
                  ELSE @[n]]]
          : d \in [mutable -> steps] }

\* ------------------------------------------------------------------ mutate

\* random.random() < rate: the outcomes the comparison can have.
Gate(rate) ==
    (IF rate > 0 THEN {TRUE} ELSE {}) \cup (IF rate < One THEN {FALSE} ELSE {})

\* The pools mutate() builds for the two adding operators.
PossibleInNodes(g) == {n \in DOMAIN g.genes : GeneType(g.genes[n]) # "output"}
PossibleOutNodes(g) == {n \in DOMAIN g.genes : GeneType(g.genes[n]) # "input"}

\* The six guarded stages of mutate(), each from one world to the set of
\* worlds it can leave.
MutateWeightsStage(w, rate) ==
    UNION { IF t /\ DOMAIN w.g.connections # {}
            THEN { [w EXCEPT !.g = g1] :
                     g1 \in mutate_weights(w.g, One \div 2, One \div 5) }
            ELSE {w}
            : t \in Gate(rate) }

MutateBiasesStage(w, rate) ==
    UNION { IF t
            THEN { [w EXCEPT !.g = g1] :
                     g1 \in mutate_biases(w.g, One \div 2, One \div 5) }
            ELSE {w}
            : t \in Gate(rate) }

AddNodeStage(w, rate) ==
    UNION { IF t /\ DOMAIN w.g.connections # {}
            THEN mutate_add_node(w, PossibleInNodes(w.g), PossibleOutNodes(w.g))
            ELSE {w}
            : t \in Gate(rate) }

AddConnectionStage(w, rate) ==
    UNION { IF t /\ Cardinality(DOMAIN w.g.genes) >= 2
            THEN mutate_add_connection(w, PossibleInNodes(w.g), PossibleOutNodes(w.g))
            ELSE {w}
            : t \in Gate(rate) }

EliminateNodeStage(w, rate) ==
    UNION { IF t /\ get_num_hidden_nodes(w.g) > 0
            THEN { [w EXCEPT !.g = g1] : g1 \in mutate_eliminate_node(w.g) }
            ELSE {w}
            : t \in Gate(rate) }

EliminateConnectionStage(w, rate) ==
    UNION { IF t /\ DOMAIN w.g.connections # {}
            THEN { [w EXCEPT !.g = g1] : g1 \in mutate_eliminate_connection(w.g) }
            ELSE {w}
            : t \in Gate(rate) }

\* mutate(): every world the call can leave. rates holds the six rate
\* parameters in units of 1/WeightScale.
mutate(w, rates) ==
    LET s1 == MutateWeightsStage(w, rates.weight_mutation_rate)
        s2 == UNION { MutateBiasesStage(x, rates.mutation_rate) : x \in s1 }
        s3 == UNION { AddNodeStage(x, rates.add_node_rate) : x \in s2 }
        s4 == UNION { AddConnectionStage(x, rates.add_connection_rate) : x \in s3 }
        s5 == UNION { EliminateNodeStage(x, rates.eliminate_node_rate) : x \in s4 }
    IN  UNION { EliminateConnectionStage(x, rates.eliminate_connection_rate) : x \in s5 }

\* The default rates of mutate(): 0.3, 0.2, 0.3, 0.3, 0.2, 0.2.
DefaultRates ==
    [mutation_rate             |-> (3 * One) \div 10,
     weight_mutation_rate      |-> (2 * One) \div 10,
     add_node_rate             |-> (3 * One) \div 10,
     add_connection_rate       |-> (3 * One) \div 10,
     eliminate_node_rate       |-> (2 * One) \div 10,
     eliminate_connection_rate |-> (2 * One) \div 10]

\* --------------------------------------------------------------- crossover

\* initial_hidden_nodes of the genome crossover() constructs for the child
\* (the constructor's default, 8 in the source), scaled down: the child's
\* genes and connections are replaced, so the value only decides how far
\* the innovation counter advances and which ids output_nodes keeps.
DefaultInitialHidden == 0

\* The gene of genes carrying innovation, as next() finds it: <<>> or
\* <<node_id>>. Innovation numbers are unique within a genome.
GeneItem(genes, innovation) ==
    LET found == {n \in DOMAIN genes : GeneInnovation(genes[n]) = innovation}
    IN  IF found = {} THEN <<>>
        ELSE <<CHOOSE n \in found : \A o \in found : n <= o>>

\* The connection key of connections carrying innovation: <<>> or <<key>>.
ConnItem(connections, innovation) ==
    LET found == {k \in DOMAIN connections : k[3] = innovation}
    IN  IF found = {} THEN <<>>
        ELSE <<CHOOSE k \in found :
                 \A o \in found : k[1] < o[1] \/ (k[1] = o[1] /\ k[2] <= o[2])>>

Min(S) == CHOOSE x \in S : \A y \in S : x <= y
Max(S) == CHOOSE x \in S : \A y \in S : x >= y

\* The gene loop of crossover() over the innovations still to visit, in
\* ascending order; coin[i] is TRUE when random.random() < 0.5 for i.
RECURSIVE CrossGenes(_, _, _, _, _, _, _)
CrossGenes(child_genes, todo, genes1, genes2, fittest_is_1, fittest_is_2, coin) ==
    IF todo = {}
    THEN child_genes
    ELSE LET innovation == Min(todo)
             gene1_item == GeneItem(genes1, innovation)
             gene2_item == GeneItem(genes2, innovation)
             next ==
               IF gene1_item # <<>> /\ gene2_item # <<>>
               THEN LET node_id == IF coin[innovation] THEN gene1_item[1] ELSE gene2_item[1]
                        gene == IF coin[innovation]
                                THEN genes1[gene1_item[1]] ELSE genes2[gene2_item[1]]
                    IN  DictSet(child_genes, node_id,
                                <<gene[1], gene[2], gene[3],
                                  IF Len(gene) > 3 THEN gene[4] ELSE 0>>)
               ELSE IF gene1_item # <<>> /\ fittest_is_1
               THEN DictSet(child_genes, gene1_item[1], genes1[gene1_item[1]])
               ELSE IF gene2_item # <<>> /\ fittest_is_2
               THEN DictSet(child_genes, gene2_item[1], genes2[gene2_item[1]])
               ELSE child_genes
         IN  CrossGenes(next, todo \ {innovation}, genes1, genes2,
                        fittest_is_1, fittest_is_2, coin)

\* The connection loop of crossover().
RECURSIVE CrossConnections(_, _, _, _, _, _, _)
CrossConnections(child_conns, todo, connections1, connections2, fittest_is_1, fittest_is_2, coin) ==
    IF todo = {}
    THEN child_conns
    ELSE LET innovation == Min(todo)
             conn1 == ConnItem(connections1, innovation)
             conn2 == ConnItem(connections2, innovation)
             next ==
               IF conn1 # <<>> /\ conn2 # <<>>
               THEN LET chosen_conn == IF coin[innovation] THEN conn1[1] ELSE conn2[1]
                        weight == IF coin[innovation]
                                  THEN connections1[conn1[1]] ELSE connections2[conn2[1]]
                    IN  DictSet(child_conns,
                                <<chosen_conn[1], chosen_conn[2], innovation>>, weight)
               ELSE IF conn1 # <<>> /\ fittest_is_1
               THEN DictSet(child_conns, conn1[1], connections1[conn1[1]])
               ELSE IF conn2 # <<>> /\ fittest_is_2
               THEN DictSet(child_conns, conn2[1], connections2[conn2[1]])
               ELSE child_conns
         IN  CrossConnections(next, todo \ {innovation}, connections1, connections2,
                              fittest_is_1, fittest_is_2, coin)

\* gene_info as crossover() copies a gene both parents carry.
WithBias(gene) == <<gene[1], gene[2], gene[3], IF Len(gene) > 3 THEN gene[4] ELSE 0>>

\* The innovations both parents carry for which the two coin outcomes give
\* different results: for the others the coin is immaterial, and the coin
\* functions below leave them out (they read as heads).
GeneCoins(genes1, genes2) ==
    {i \in {GeneInnovation(genes1[n]) : n \in DOMAIN genes1}
           \cap {GeneInnovation(genes2[n]) : n \in DOMAIN genes2} :
        \/ GeneItem(genes1, i) # GeneItem(genes2, i)
        \/ WithBias(genes1[GeneItem(genes1, i)[1]]) # WithBias(genes2[GeneItem(genes2, i)[1]])}

ConnCoins(connections1, connections2) ==
    {i \in {k[3] : k \in DOMAIN connections1} \cap {k[3] : k \in DOMAIN connections2} :
        \/ ConnItem(connections1, i) # ConnItem(connections2, i)
        \/ connections1[ConnItem(connections1, i)[1]] # connections2[ConnItem(connections2, i)[1]]}

\* fittest_parent taken to be both parents, whatever their fitness.
fittest_parent_both(parent1, parent2, same_object) ==
    [is_1 |-> TRUE, is_2 |-> TRUE]

\* fittest_parent = parent1 if parent1.fitness > parent2.fitness else
\* parent2, as the two tests crossover() makes of it: fittest_parent ==
\* parent1 and fittest_parent == parent2 compare object identities, and
\* both hold when the two parents are one object.
fittest_parent(parent1, parent2, same_object) ==
    LET p1_fitter == parent1.fitness[1] > parent2.fitness[1]
    IN  [is_1 |-> p1_fitter \/ same_object,
         is_2 |-> ~p1_fitter \/ same_object]

\* crossover(): every child, with the manager the call leaves. Both parents
\* have a fitness. same_object says that parent1 and parent2 are one
\* object: fittest_parent == parentN compares identities.
crossover(parent1, parent2, same_object, m) ==
    LET fittest_is_1 == fittest_parent(parent1, parent2, same_object).is_1
        fittest_is_2 == fittest_parent(parent1, parent2, same_object).is_2
        id == next_genome_id(m)
        built == FeedforwardGenome(
                    id.ret,
                    get_num_inputs(parent1),
                    Cardinality({n \in DOMAIN parent1.genes :
                                    GeneType(parent1.genes[n]) = "output"}),
                    id.im,
                    DefaultInitialHidden)
        gene_innovations == {GeneInnovation(parent1.genes[n]) : n \in DOMAIN parent1.genes}
                            \cup {GeneInnovation(parent2.genes[n]) : n \in DOMAIN parent2.genes}
        conn_innovations == {k[3] : k \in DOMAIN parent1.connections}
                            \cup {k[3] : k \in DOMAIN parent2.connections}
        gene_coins == GeneCoins(parent1.genes, parent2.genes)
        conn_coins == ConnCoins(parent1.connections, parent2.connections)
        children ==
          { LET genes == CrossGenes(<<>>, gene_innovations,
                                    parent1.genes, parent2.genes,
                                    fittest_is_1, fittest_is_2,
                                    [i \in gene_innovations |->
                                        IF i \in gene_coins THEN gene_coin[i] ELSE TRUE])
                conns == CrossConnections(<<>>, conn_innovations,
                                          parent1.connections, parent2.connections,
                                          fittest_is_1, fittest_is_2,
                                          [i \in conn_innovations |->
                                              IF i \in conn_coins THEN conn_coin[i] ELSE TRUE])
            IN  [genes |-> genes, connections |-> conns,
                 next_node_id |-> IF DOMAIN genes # {} THEN Max(DOMAIN genes) + 1 ELSE 0]
            : gene_coin \in [gene_coins -> BOOLEAN],
              conn_coin \in [conn_coins -> BOOLEAN] }
    IN  { [g  |-> [b.g EXCEPT
                     !.genes = c.genes,
                     !.connections = c.connections,
                     !.next_node_id = c.next_node_id],
           im |-> increment_genome_id(b.im)]
          : b \in built, c \in children }

\* -------------------------------------------------------------- Population

\* Population.create_initial_genome_population: every genome it can build.
create_initial_genome_population(m, num_inputs, num_outputs, initial_hidden_nodes) ==
    LET id == next_genome_id(m)
    IN  { [w EXCEPT !.im = increment_genome_id(@)] :
            w \in FeedforwardGenome(id.ret, num_inputs, num_outputs, id.im,
                                    initial_hidden_nodes) }

\* ----------------------------------------------------------------- SpecIM
\* The InnovationManager alone, driven by arbitrary callers.

IMTypes == {"gene", "connection"}
IMInIds == {0, 1}
IMOutIds == {None, 1}

\* The genome slot before any genome is built.
NoGenome ==
    [genome_id |-> None, genes |-> <<>>, connections |-> <<>>,
     next_node_id |-> 0, fitness |-> <<>>, output_nodes |-> <<>>]

NoDraws == [activation |-> {}, uniform |-> {}, delta |-> {}, fitness |-> {}]

\* No genome object, no Population and no StagnationManager built.
NoObjects ==
    /\ heap = [objs |-> <<>>, dicts |-> <<>>]
    /\ population = <<>>
    /\ stagnation = <<>>

InitIM ==
    /\ im = NewInnovationManager
    /\ genome = NoGenome
    /\ op = [name |-> "init", args |-> <<>>, ret |-> None]
    /\ draws = NoDraws
    /\ NoObjects

\* A caller invokes create_innovation without an explicit number, as every
\* call site of the module does.
CreateInnovation ==
    \E t \in IMTypes, i \in IMInIds, o \in IMOutIds :
        /\ im.next_innovation_number < MaxIMInnovation
        /\ LET r == create_innovation(im, t, i, o, None)
           IN  /\ im' = r.im
               /\ op' = [name |-> "create_innovation", args |-> <<t, i, o>>, ret |-> r.ret]
        /\ UNCHANGED <<genome, draws, objects>>

GetInnovationNumber ==
    \E t \in IMTypes, i \in IMInIds, o \in IMOutIds :
        /\ op' = [name |-> "get_innovation_number", args |-> <<t, i, o>>,
                  ret |-> get_innovation_number(im, t, i, o)]
        /\ UNCHANGED <<im, genome, draws, objects>>

NextGenomeId ==
    /\ im.next_genome_id_counter < MaxGenomeId
    /\ LET r == next_genome_id(im)
       IN  /\ im' = r.im
           /\ op' = [name |-> "next_genome_id", args |-> <<>>, ret |-> r.ret]
    /\ UNCHANGED <<genome, draws, objects>>

IncrementGenomeId ==
    /\ im.next_genome_id_counter < MaxGenomeId
    /\ im' = increment_genome_id(im)
    /\ op' = [name |-> "increment_genome_id", args |-> <<>>, ret |-> None]
    /\ UNCHANGED <<genome, draws, objects>>

NextIM ==
    \/ CreateInnovation
    \/ GetInnovationNumber
    \/ NextGenomeId
    \/ IncrementGenomeId

SpecIM == InitIM /\ [][NextIM]_vars

\* ------------------------------------------------------------------- Spec
\* One genome built by Population.create_initial_genome_population and then
\* put through the operators of FeedforwardGenome, fitness evaluation and
\* crossover with itself (random.choice may draw the same parent twice);
\* after a crossover the genome observed is the child.

\* random.choice(['relu', 'sigmoid', 'tanh'])
Activations == {"relu", "sigmoid", "tanh"}

\* The arguments of create_initial_population.
Shapes == {[num_inputs |-> 1, num_outputs |-> 1, initial_hidden_nodes |-> 2]}

\* The samples of the random module in the structural specifications: one
\* hidden activation, one value of uniform(-1, 1), the unit sample 0 behind
\* uniform(-power, power), one fitness value.
GenomeDraws ==
    [activation |-> {a \in Activations : a = "relu"},
     uniform    |-> {One \div 2},
     delta      |-> {0},
     fitness    |-> {0}]

World == [g |-> genome, im |-> im]

Within(w, max_innovation, max_genome_id) ==
    /\ w.im.next_innovation_number <= max_innovation
    /\ w.im.next_genome_id_counter <= max_genome_id

Becomes(w) ==
    /\ genome' = w.g
    /\ im' = w.im
    /\ UNCHANGED <<op, draws, objects>>

InitGenome(shapes) ==
    /\ draws = GenomeDraws
    /\ \E shape \in shapes :
         \E w \in create_initial_genome_population(
                     NewInnovationManager, shape.num_inputs, shape.num_outputs,
                     shape.initial_hidden_nodes) :
            /\ genome = w.g
            /\ im = w.im
    /\ op = [name |-> "init", args |-> <<>>, ret |-> None]
    /\ NoObjects

Init == InitGenome(Shapes)

MutateWeights ==
    \E g1 \in mutate_weights(genome, One \div 2, One \div 5) :
        Becomes([g |-> g1, im |-> im])

\* child.mutate_biases(bias_mutation_rate, bias_mutation_power), 0.3 each
MutateBiases ==
    \E g1 \in mutate_biases(genome, (3 * One) \div 10, (3 * One) \div 10) :
        Becomes([g |-> g1, im |-> im])

MutateAddNode ==
    \E w \in mutate_add_node(World, PossibleInNodes(genome), PossibleOutNodes(genome)) :
        Within(w, MaxInnovation, MaxGenomeId) /\ Becomes(w)

MutateAddConnection ==
    \E w \in mutate_add_connection(World, PossibleInNodes(genome), PossibleOutNodes(genome)) :
        Within(w, MaxInnovation, MaxGenomeId) /\ Becomes(w)

MutateEliminateNode ==
    \E g1 \in mutate_eliminate_node(genome) :
        Becomes([g |-> g1, im |-> im])

MutateEliminateConnection ==
    \E g1 \in mutate_eliminate_connection(genome) :
        Becomes([g |-> g1, im |-> im])

PruneOrphanNodes ==
    Becomes([g |-> prune_orphan_nodes(genome), im |-> im])

PruneDisconnectedInputs ==
    \E w \in prune_disconnected_inputs(World) :
        Within(w, MaxInnovation, MaxGenomeId) /\ Becomes(w)

\* genome.evaluate_genome(graph_data): the evaluation sets the fitness and
\* changes nothing else.
Evaluate ==
    \E f \in draws.fitness :
        Becomes([g |-> [genome EXCEPT !.fitness = <<f>>], im |-> im])

\* crossover(genome, genome, innovation_manager): reproduce_and_mutate drew
\* the genome as both parents. Comparing the fitness of a genome never
\* evaluated raises before any change.
Crossover ==
    /\ genome.fitness # <<>>
    /\ \E w \in crossover(genome, genome, TRUE, im) :
          Within(w, MaxInnovation, MaxGenomeId) /\ Becomes(w)

Next ==
    \/ MutateWeights
    \/ MutateBiases
    \/ MutateAddNode
    \/ MutateAddConnection
    \/ MutateEliminateNode
    \/ MutateEliminateConnection
    \/ PruneOrphanNodes
    \/ PruneDisconnectedInputs
    \/ Evaluate
    \/ Crossover

Spec == Init /\ [][Next]_vars

\* ------------------------------------------------------------- SpecMutate
\* The calls Population.reproduce_and_mutate makes on the lineage of one
\* genome: evaluation, crossover of the genome with itself, mutate() and
\* mutate_biases on the child.

\* mutate(child, innovation_manager, mutation_rate)
Mutate ==
    \E w \in mutate(World, DefaultRates) :
        Within(w, MaxInnovation, MaxGenomeId) /\ Becomes(w)

NextMutate ==
    \/ Evaluate
    \/ Crossover
    \/ Mutate
    \/ MutateBiases

SpecMutate == Init /\ [][NextMutate]_vars

\* ------------------------------------------------------------ SpecLineage
\* A longer lineage of a smaller genome: connections are split, hidden
\* nodes eliminated, the genome is evaluated and crossed over with itself,
\* and the child is split again.

LineageShapes == {[num_inputs |-> 1, num_outputs |-> 1, initial_hidden_nodes |-> 1]}

InitLineage == InitGenome(LineageShapes)

LineageAddNode ==
    \E w \in mutate_add_node(World, PossibleInNodes(genome), PossibleOutNodes(genome)) :
        Within(w, MaxLineageInnovation, MaxGenomeId) /\ Becomes(w)

LineageCrossover ==
    /\ genome.fitness # <<>>
    /\ \E w \in crossover(genome, genome, TRUE, im) :
          Within(w, MaxLineageInnovation, MaxGenomeId) /\ Becomes(w)

NextLineage ==
    \/ LineageAddNode
    \/ MutateEliminateNode
    \/ Evaluate
    \/ LineageCrossover

SpecLineage == InitLineage /\ [][NextLineage]_vars

\* ------------------------------------------------------------ claims C1-C2

\* C1: a create_innovation call whose (innovation_type, gene_in_id,
\* gene_out_id) key was already registered by an earlier call returns the
\* number registered for that key and leaves next_innovation_number as it
\* was, whatever calls happened in between.
C1_ReuseSameKey ==
    [][(op'.name = "create_innovation" /\ op'.args \in DOMAIN im.innovations)
        => /\ op'.ret = im.innovations[op'.args]
           /\ im'.next_innovation_number = im.next_innovation_number]_vars

\* The numbers the table holds.
IssuedNumbers(m) == {m.innovations[k] : k \in DOMAIN m.innovations}

\* C2: without explicit numbers, every create_innovation call returns a
\* number strictly greater than every number issued before, no two distinct
\* keys of the table map to the same number, and next_innovation_number
\* never decreases.
C2_StrictlyIncreasing ==
    /\ [](\A k1, k2 \in DOMAIN im.innovations :
            im.innovations[k1] = im.innovations[k2] => k1 = k2)
    /\ [][/\ im'.next_innovation_number >= im.next_innovation_number
          /\ op'.name = "create_innovation" =>
                \A n \in IssuedNumbers(im) : op'.ret > n]_vars

\* C2 witness: a second key has been registered after a first one, and a
\* key has been registered again.
C2_Witness ==
    /\ op.name = "create_innovation"
    /\ Cardinality(DOMAIN im.innovations) >= 2
    /\ im.next_innovation_number > Cardinality(DOMAIN im.innovations) + 1

\* ----------------------------------------------------------- claims C3-C10

HiddenNodes(g) == {n \in DOMAIN g.genes : GeneType(g.genes[n]) = "hidden"}
HasIncoming(g, n) == \E k \in DOMAIN g.connections : k[2] = n
HasOutgoing(g, n) == \E k \in DOMAIN g.connections : k[1] = n

HiddenBridged(g) ==
    \A n \in HiddenNodes(g) : HasIncoming(g, n) /\ HasOutgoing(g, n)

\* C3: after a call of mutate(), which drives the four structural mutation
\* operators and the pruning they run, every Hidden node in genes has at
\* least one incoming and at least one outgoing connection.
C3_HiddenBridgedAfterMutate ==
    [][Mutate => HiddenBridged(genome')]_vars

\* C4: every connection key (in_node, out_node, innovation) of the genome,
\* from construction on, satisfies in_node < out_node.
C4_InBelowOut ==
    \A k \in DOMAIN genome.connections : k[1] < k[2]

Edges(g) == {<<k[1], k[2]>> : k \in DOMAIN g.connections}

RECURSIVE TransitiveClosure(_)
TransitiveClosure(R) ==
    LET R2 == R \cup {<<p[1][1], p[2][2]>> : p \in {q \in R \X R : q[1][2] = q[2][1]}}
    IN  IF R2 = R THEN R ELSE TransitiveClosure(R2)

Acyclic(g) == \A e \in TransitiveClosure(Edges(g)) : e[1] # e[2]

\* One call of a structural operator or of a pruning pass.
StructuralCall ==
    \/ MutateAddNode
    \/ MutateAddConnection
    \/ MutateEliminateNode
    \/ MutateEliminateConnection
    \/ PruneOrphanNodes
    \/ PruneDisconnectedInputs

\* C5: a call of mutate_add_node, mutate_add_connection,
\* mutate_eliminate_node, mutate_eliminate_connection, prune_orphan_nodes or
\* prune_disconnected_inputs on a genome whose connection graph is acyclic
\* leaves it acyclic; in particular mutate_add_connection never inserts an
\* edge that closes a cycle.
C5_AcyclicPreserved ==
    [][(StructuralCall /\ Acyclic(genome)) => Acyclic(genome')]_vars

IONodes(g) == {n \in DOMAIN g.genes : GeneType(g.genes[n]) \in {"input", "output"}}

\* C6: a call of mutate() removes no Input or Output node: each is still in
\* genes with the same role afterwards, and every id of output_nodes is
\* still a gene.
C6_MutateKeepsIONodes ==
    [][Mutate =>
        /\ \A n \in IONodes(genome) :
              /\ n \in DOMAIN genome'.genes
              /\ GeneType(genome'.genes[n]) = GeneType(genome.genes[n])
        /\ \A i \in 1..Len(genome'.output_nodes) :
              genome'.output_nodes[i] \in DOMAIN genome'.genes]_vars

\* C7: after a call of mutate() every Input node has an outgoing and every
\* Output node an incoming connection.
C7_NoIsolatedIOAfterMutate ==
    [][Mutate =>
        \A n \in IONodes(genome') :
            IF GeneType(genome'.genes[n]) = "input"
            THEN HasOutgoing(genome', n)
            ELSE HasIncoming(genome', n)]_vars

\* C8: both endpoints of every connection are node ids present in genes (so
\* the id shared by the two connections mutate_add_node inserts is the key
\* of the Hidden gene it stored).
C8_EndpointsAreGenes ==
    \A k \in DOMAIN genome.connections :
        k[1] \in DOMAIN genome.genes /\ k[2] \in DOMAIN genome.genes

\* What mutate_add_node does to the connections of g, giving those of h:
\* one connection (a, b) of weight w goes, (a, n) of weight 1.0 and (n, b)
\* of weight w come, n the node id the call allocates; the rest stays.
SplitShape(g, h) ==
    \E c \in DOMAIN g.connections :
        LET n == g.next_node_id
            added == (DOMAIN h.connections) \ (DOMAIN g.connections)
        IN  /\ (DOMAIN g.connections) \ (DOMAIN h.connections) = {c}
            /\ Cardinality(added) = 2
            /\ \E k1, k2 \in added :
                  /\ k1 # k2
                  /\ k1[1] = c[1] /\ k1[2] = n
                  /\ k2[1] = n /\ k2[2] = c[2]
                  /\ h.connections[k1] = One
                  /\ h.connections[k2] = g.connections[c]
            /\ \A k \in (DOMAIN g.connections) \ {c} :
                  h.connections[k] = g.connections[k]

C10_OneInnovationPerPair ==
    \A k1, k2 \in DOMAIN genome.connections :
        (k1[1] = k2[1] /\ k1[2] = k2[2]) => k1[3] = k2[3]

\* ---------------------------------------------------------- claims C11-C20

Joined(g, a, b) ==
    \E k \in DOMAIN g.connections :
        \/ (k[1] = a /\ k[2] = b)
        \/ (k[1] = b /\ k[2] = a)

\* C11: a mutate_add_connection call adds either nothing or exactly one
\* connection (source, target), and then source # target, source < target
\* and no connection joined the two nodes, in either direction, before the
\* call.
C11_AddConnectionGuards ==
    [][MutateAddConnection =>
         LET added == (DOMAIN genome'.connections) \ (DOMAIN genome.connections)
         IN  /\ Cardinality(added) <= 1
             /\ \A k \in added :
                   /\ k[1] # k[2]
                   /\ k[1] < k[2]
                   /\ ~Joined(genome, k[1], k[2])]_vars

\* ------------------------------------------------------------------- heap
\* Genome objects. heap.objs[o] is the object with reference o: genome_id,
\* fitness and next_node_id are immutable values held in the attribute,
\* genes, connections and output_nodes are references into heap.dicts, the
\* mutable dicts and lists. Gene tuples and connection keys are immutable.

EmptyHeap == [objs |-> <<>>, dicts |-> <<>>]

\* The attributes of object o read through their references.
Deref(h, o) ==
    LET obj == h.objs[o]
    IN  [genome_id    |-> obj.genome_id,
         genes        |-> h.dicts[obj.genes],
         connections  |-> h.dicts[obj.connections],
         next_node_id |-> obj.next_node_id,
         fitness      |-> obj.fitness,
         output_nodes |-> h.dicts[obj.output_nodes]]

\* A new object whose three containers are new and hold the values of g.
Alloc(h, g) ==
    LET n == Len(h.dicts)
    IN  [objs  |-> Append(h.objs,
                     [genome_id |-> g.genome_id, fitness |-> g.fitness,
                      next_node_id |-> g.next_node_id,
                      genes |-> n + 1, connections |-> n + 2, output_nodes |-> n + 3]),
         dicts |-> h.dicts \o <<g.genes, g.connections, g.output_nodes>>]

\* The methods of object o have turned its value into g1: genes and
\* output_nodes are changed in place; connections are changed in place
\* unless the method assigned a new dict to self.connections (rebound).
\* The dict left behind by the assignment is dropped when no other object
\* refers to it, and its place is taken by the new one.
Store(h, o, g1, rebound) ==
    LET obj == h.objs[o]
        shared == \E o2 \in DOMAIN h.objs :
                     o2 # o /\ h.objs[o2].connections = obj.connections
        fresh == rebound /\ shared
        dicts0 == IF fresh THEN Append(h.dicts, g1.connections) ELSE h.dicts
        conn_at == IF fresh THEN Len(dicts0) ELSE obj.connections
    IN  [objs  |-> [h.objs EXCEPT ![o] =
                      [@ EXCEPT !.next_node_id = g1.next_node_id,
                                !.fitness = g1.fitness,
                                !.connections = conn_at]],
         dicts |-> [dicts0 EXCEPT ![obj.genes] = g1.genes,
                                  ![conn_at] = g1.connections,
                                  ![obj.output_nodes] = g1.output_nodes]]

\* copy() whose three containers are the ones of self (no deepcopy).
copy_shallow(h, o, m) ==
    LET self == Deref(h, o)
        built == FeedforwardGenome(self.genome_id, get_num_inputs(self),
                                   get_num_outputs(self), m, 0)
    IN  { [heap |-> [h EXCEPT !.objs = Append(@, h.objs[o])],
           im   |-> b.im,
           ret  |-> Len(h.objs) + 1] : b \in built }

\* FeedforwardGenome.copy: the constructor runs against the shared
\* innovation manager, then every attribute of the new object is replaced:
\* the containers by deep copies, the others by the values of self.
copy(h, o, m) ==
    LET self == Deref(h, o)
        built == FeedforwardGenome(self.genome_id, get_num_inputs(self),
                                   get_num_outputs(self), m, 0)
    IN  { [heap |-> Alloc(h, [b.g EXCEPT !.genes = self.genes,
                                         !.connections = self.connections,
                                         !.next_node_id = self.next_node_id,
                                         !.fitness = self.fitness,
                                         !.output_nodes = self.output_nodes]),
           im   |-> b.im,
           ret  |-> Len(h.objs) + 1] : b \in built }

\* --------------------------------------------------------------- SpecCopy
\* One genome built by create_initial_genome_population, the copies taken
\* of it, and the mutation operators applied to any of the objects.

\* The innovation numbers and the sizes of weights and biases the runs of
\* SpecCopy go up to; every copy takes innovation numbers, so the first
\* bounds the number of objects as well.
MaxCopyInnovation == 9
MaxWeight == 7

CopyShapes == {[num_inputs |-> 1, num_outputs |-> 1, initial_hidden_nodes |-> 0]}

\* As GenomeDraws, with the unit sample 1.0 behind uniform(-power, power).
CopyDraws == [GenomeDraws EXCEPT !.delta = {One}]

Methods ==
    {"mutate_weights", "mutate_biases", "mutate_add_node", "mutate_add_connection",
     "mutate_eliminate_node", "mutate_eliminate_connection"}

\* Every outcome of self.<method>(...) on the genome of w, with the
\* arguments mutate() passes.
Apply(method, w) ==
    CASE method = "mutate_weights" ->
           {[w EXCEPT !.g = g1] : g1 \in mutate_weights(w.g, One \div 2, One \div 5)}
      [] method = "mutate_biases" ->
           {[w EXCEPT !.g = g1] : g1 \in mutate_biases(w.g, One \div 2, One \div 5)}
      [] method = "mutate_add_node" ->
           mutate_add_node(w, PossibleInNodes(w.g), PossibleOutNodes(w.g))
      [] method = "mutate_add_connection" ->
           mutate_add_connection(w, PossibleInNodes(w.g), PossibleOutNodes(w.g))
      [] method = "mutate_eliminate_node" ->
           {[w EXCEPT !.g = g1] : g1 \in mutate_eliminate_node(w.g)}
      [] method = "mutate_eliminate_connection" ->
           {[w EXCEPT !.g = g1] : g1 \in mutate_eliminate_connection(w.g)}

\* prune_orphan_nodes, reached from mutate_eliminate_connection, assigns a
\* new dict to self.connections once per orphan it deletes.
Rebound(method, g, g1) ==
    method = "mutate_eliminate_connection" /\ DOMAIN g1.genes # DOMAIN g.genes

\* The weights and biases the call changed stay within MaxWeight.
SmallValues(g, g1) ==
    /\ \A k \in (DOMAIN g.connections) \cap (DOMAIN g1.connections) :
          g1.connections[k] # g.connections[k] => g1.connections[k] <= MaxWeight
    /\ \A n \in (DOMAIN g.genes) \cap (DOMAIN g1.genes) :
          g1.genes[n] # g.genes[n] => g1.genes[n][4] <= MaxWeight

InitCopy ==
    /\ draws = CopyDraws
    /\ \E shape \in CopyShapes :
         \E w \in create_initial_genome_population(
                     NewInnovationManager, shape.num_inputs, shape.num_outputs,
                     shape.initial_hidden_nodes) :
            /\ heap = Alloc(EmptyHeap, w.g)
            /\ im = w.im
    /\ genome = NoGenome
    /\ population = <<>>
    /\ stagnation = <<>>
    /\ op = [name |-> "init", args |-> <<>>, ret |-> None]

\* g2 = o.copy()
Copy(o) ==
    /\ \E r \in copy(heap, o, im) :
          /\ r.im.next_innovation_number <= MaxCopyInnovation
          /\ heap' = r.heap
          /\ im' = r.im
          /\ op' = [name |-> "copy", args |-> <<o>>, ret |-> r.ret]
    /\ UNCHANGED <<genome, draws, population, stagnation>>

\* o.<method>(...); op records that a mutation operator ran on o.
CallWithin(o, method, max_innovation) ==
    \E w \in Apply(method, [g |-> Deref(heap, o), im |-> im]) :
       /\ w.im.next_innovation_number <= max_innovation
       /\ SmallValues(Deref(heap, o), w.g)
       /\ heap' = Store(heap, o, w.g, Rebound(method, Deref(heap, o), w.g))
       /\ im' = w.im
       /\ op' = [name |-> "mutation", args |-> <<o>>, ret |-> None]
       /\ UNCHANGED <<genome, draws, population, stagnation>>

Call(o, method) == CallWithin(o, method, MaxCopyInnovation)

CallCopy == \E o \in DOMAIN heap.objs : Copy(o)
CallMutateWeights == \E o \in DOMAIN heap.objs : Call(o, "mutate_weights")
CallMutateBiases == \E o \in DOMAIN heap.objs : Call(o, "mutate_biases")
CallMutateAddNode == \E o \in DOMAIN heap.objs : Call(o, "mutate_add_node")
CallMutateAddConnection == \E o \in DOMAIN heap.objs : Call(o, "mutate_add_connection")
CallMutateEliminateNode == \E o \in DOMAIN heap.objs : Call(o, "mutate_eliminate_node")
CallMutateEliminateConnection == \E o \in DOMAIN heap.objs : Call(o, "mutate_eliminate_connection")

\* genome.evaluate_genome(graph_data) for the genome built first, before
\* any copy of it is taken.
CallEvaluate ==
    /\ Len(heap.objs) = 1
    /\ \E o \in DOMAIN heap.objs, f \in draws.fitness :
         /\ heap' = [heap EXCEPT !.objs[o].fitness = <<f>>]
         /\ op' = [name |-> "evaluate_genome", args |-> <<o>>, ret |-> f]
    /\ UNCHANGED <<im, genome, draws, population, stagnation>>

NextCopy ==
    \/ CallCopy
    \/ CallMutateWeights
    \/ CallMutateBiases
    \/ CallMutateAddNode
    \/ CallMutateAddConnection
    \/ CallMutateEliminateNode
    \/ CallMutateEliminateConnection
    \/ CallEvaluate

SpecCopy == InitCopy /\ [][NextCopy]_vars

Structure(g) == <<g.genes, g.connections, g.next_node_id, g.output_nodes>>

\* C12: g2 = g.copy() has the genome_id, fitness, genes, connections,
\* next_node_id and output_nodes of g, and a mutation operator applied to
\* one object leaves genes, connections, next_node_id and output_nodes of
\* every other object as they were.
C12_CopyIsDeep ==
    [][/\ (op'.name = "copy" /\ heap' # heap) =>
             Deref(heap', op'.ret) = Deref(heap, op'.args[1])
       /\ (op'.name = "mutation" /\ heap' # heap) =>
             \A o \in DOMAIN heap.objs :
                o # op'.args[1] =>
                   Structure(Deref(heap', o)) = Structure(Deref(heap, o))]_vars

\* C12 witness: a copy exists, it carries a fitness, and the two objects
\* differ in genes and in connections after mutations.
C12_Witness ==
    /\ Len(heap.objs) >= 2
    /\ op.name = "mutation"
    /\ heap.objs[2].fitness # <<>>
    /\ Deref(heap, 1).genes # Deref(heap, 2).genes
    /\ DOMAIN Deref(heap, 1).connections # DOMAIN Deref(heap, 2).connections

\* -------------------------------------------------------------- SpecCross
\* crossover() as a function of the module, called on two evaluated
\* genomes. The first genome is built by create_initial_genome_population;
\* the second is built the same way or is the child of the first crossed
\* with itself, and as in reproduce_and_mutate it is mutated before it is
\* evaluated. The third object is the child of the last crossover of the
\* two; the child of an earlier one is unreferenced and dropped.

\* The innovation numbers the runs of SpecCross go up to.
MaxCrossInnovation == 12

CrossShapes == {[num_inputs |-> 1, num_outputs |-> 1, initial_hidden_nodes |-> 0]}

\* As CopyDraws, with two fitness values.
CrossDraws == [GenomeDraws EXCEPT !.fitness = {0, 1}, !.delta = {One}]

\* crossover() that hands back parent1 itself when the two parents are the
\* same object.
crossover_objects_alias(h, o1, o2, m) ==
    IF o1 = o2
    THEN {[heap |-> h, im |-> m, ret |-> o1]}
    ELSE { [heap |-> Alloc(h, w.g), im |-> w.im, ret |-> Len(h.objs) + 1]
           : w \in crossover(Deref(h, o1), Deref(h, o2), FALSE, m) }

\* crossover(parent1, parent2, innovation_manager) on objects: the child is
\* a new object; its genes and connections are new dicts filled with the
\* (immutable) tuples chosen, its output_nodes the list its constructor
\* built.
crossover_objects(h, o1, o2, m) ==
    { [heap |-> Alloc(h, w.g), im |-> w.im, ret |-> Len(h.objs) + 1]
      : w \in crossover(Deref(h, o1), Deref(h, o2), o1 = o2, m) }

\* The heap once the objects after the first n are unreferenced.
Keep(h, n) ==
    [objs  |-> SubSeq(h.objs, 1, n),
     dicts |-> SubSeq(h.dicts, 1, Len(Alloc(EmptyHeap, NoGenome).dicts) * n)]

InitCross ==
    /\ draws = CrossDraws
    /\ \E shape \in CrossShapes :
         \E w \in create_initial_genome_population(
                     NewInnovationManager, shape.num_inputs, shape.num_outputs,
                     shape.initial_hidden_nodes) :
            /\ heap = Alloc(EmptyHeap, w.g)
            /\ im = w.im
    /\ genome = NoGenome
    /\ population = <<>>
    /\ stagnation = <<>>
    /\ op = [name |-> "init", args |-> <<>>, ret |-> None]

\* The second genome of the population, from
\* create_initial_genome_population.
CrossCreate ==
    /\ Len(heap.objs) = 1
    /\ \E shape \in CrossShapes :
         \E w \in create_initial_genome_population(
                     im, shape.num_inputs, shape.num_outputs,
                     shape.initial_hidden_nodes) :
            /\ w.im.next_innovation_number <= MaxCrossInnovation
            /\ heap' = Alloc(heap, w.g)
            /\ im' = w.im
            /\ op' = [name |-> "create", args |-> <<>>, ret |-> Len(heap.objs) + 1]
    /\ UNCHANGED <<genome, draws, population, stagnation>>

\* genome.evaluate_genome(graph_data) on a genome not yet evaluated.
CrossEvaluate ==
    /\ \E o \in DOMAIN heap.objs, f \in draws.fitness :
         /\ heap.objs[o].fitness = <<>>
         /\ heap' = [heap EXCEPT !.objs[o].fitness = <<f>>]
         /\ op' = [name |-> "evaluate_genome", args |-> <<o>>, ret |-> f]
    /\ UNCHANGED <<im, genome, draws, population, stagnation>>

\* The two genomes crossover can be called on.
Parents == {o \in DOMAIN heap.objs : o <= 2 /\ heap.objs[o].fitness # <<>>}

\* child = crossover(o1, o2, innovation_manager); comparing the fitness of
\* a genome never evaluated raises before any change.
CrossCrossover ==
    /\ \E o1, o2 \in Parents :
         LET h == IF Len(heap.objs) > 2 THEN Keep(heap, 2) ELSE heap
         IN  \E r \in crossover_objects(h, o1, o2, im) :
               /\ r.im.next_innovation_number <= MaxCrossInnovation
               /\ heap' = r.heap
               /\ im' = r.im
               /\ op' = [name |-> "crossover", args |-> <<o1, o2>>, ret |-> r.ret]
    /\ UNCHANGED <<genome, draws, population, stagnation>>

\* The second genome while it is not evaluated.
Newborn == {o \in DOMAIN heap.objs : o = 2 /\ heap.objs[o].fitness = <<>>}

CrossAddNode ==
    \E o \in Newborn : CallWithin(o, "mutate_add_node", MaxCrossInnovation)

CrossAddConnection ==
    \E o \in Newborn : CallWithin(o, "mutate_add_connection", MaxCrossInnovation)

CrossMutateWeights ==
    \E o \in Newborn : CallWithin(o, "mutate_weights", MaxCrossInnovation)

NextCross ==
    \/ CrossCreate
    \/ CrossEvaluate
    \/ CrossCrossover
    \/ CrossAddNode
    \/ CrossAddConnection
    \/ CrossMutateWeights

SpecCross == InitCross /\ [][NextCross]_vars

GeneInnovations(g) == {GeneInnovation(g.genes[n]) : n \in DOMAIN g.genes}
ConnInnovations(g) == {k[3] : k \in DOMAIN g.connections}

\* The node genes of g with innovation number i, as (node id, type,
\* activation, innovation, bias) with bias 0 for a gene stored without one,
\* and its connections with innovation number i, as (key, weight).
GenesOf(g, i) ==
    {<<n, WithBias(g.genes[n])>> :
        n \in {x \in DOMAIN g.genes : GeneInnovation(g.genes[x]) = i}}
ConnsOf(g, i) ==
    {<<k, g.connections[k]>> : k \in {x \in DOMAIN g.connections : x[3] = i}}

\* What the child c carries under innovation number i (carried) is what the
\* rule of inheritance gives from what the parents carry under it.
Inherited(carried, from1, from2, fitter_is_1, fitter_is_2) ==
    IF from1 # {} /\ from2 # {}
    THEN Cardinality(carried) = 1 /\ carried \subseteq from1 \cup from2
    ELSE IF from1 # {}
    THEN carried = (IF fitter_is_1 THEN from1 ELSE {})
    ELSE IF from2 # {}
    THEN carried = (IF fitter_is_2 THEN from2 ELSE {})
    ELSE carried = {}

\* C13: in child = crossover(p1, p2), for every innovation number of a node
\* gene or of a connection of either parent: when both parents carry it
\* the child carries it once, with the value one of the parents has; when
\* one parent carries it the child carries that parent's gene if that
\* parent is the fitter one (p1 with the strictly greater fitness, else
\* p2) and nothing otherwise; the child carries no other innovation number.
C13_CrossoverInherits ==
    [][op'.name = "crossover" =>
         LET p1 == Deref(heap, op'.args[1])
             p2 == Deref(heap, op'.args[2])
             c == Deref(heap', op'.ret)
             same == op'.args[1] = op'.args[2]
             fitter_is_1 == p1.fitness[1] > p2.fitness[1] \/ same
             fitter_is_2 == ~(p1.fitness[1] > p2.fitness[1]) \/ same
         IN  /\ GeneInnovations(c) \subseteq GeneInnovations(p1) \cup GeneInnovations(p2)
             /\ ConnInnovations(c) \subseteq ConnInnovations(p1) \cup ConnInnovations(p2)
             /\ \A i \in GeneInnovations(p1) \cup GeneInnovations(p2) :
                   Inherited(GenesOf(c, i), GenesOf(p1, i), GenesOf(p2, i),
                             fitter_is_1, fitter_is_2)
             /\ \A i \in ConnInnovations(p1) \cup ConnInnovations(p2) :
                   Inherited(ConnsOf(c, i), ConnsOf(p1, i), ConnsOf(p2, i),
                             fitter_is_1, fitter_is_2)]_vars

\* C13 witness: a crossover of two distinct parents of different fitness
\* has run; the parents share node genes, the fitter parent has a gene the
\* other lacks and the less fit one a connection the other lacks, which
\* the child does not carry.
C13_Witness ==
    /\ op.name = "crossover"
    /\ op.args[1] # op.args[2]
    /\ LET p1 == Deref(heap, op.args[1])
           p2 == Deref(heap, op.args[2])
           c == Deref(heap, op.ret)
       IN  /\ GeneInnovations(p1) \cap GeneInnovations(p2) # {}
           /\ \E p \in {p1, p2}, q \in {p1, p2} :
                 /\ p.fitness[1] > q.fitness[1]
                 /\ GeneInnovations(p) \ GeneInnovations(q) # {}
                 /\ (ConnInnovations(q) \ ConnInnovations(p)) \ ConnInnovations(c) # {}

\* C14: for any two evaluated genomes o1, o2 (equal fitness included) and
\* any outcome of the random choices, the child of crossover(o1, o2) and
\* the child of crossover(o2, o1) carry the same set of node innovation
\* numbers and the same set of connection innovation numbers.
C14_CrossoverCommutes ==
    \A o1, o2 \in Parents :
       \A w1 \in crossover(Deref(heap, o1), Deref(heap, o2), o1 = o2, im),
          w2 \in crossover(Deref(heap, o2), Deref(heap, o1), o1 = o2, im) :
          /\ GeneInnovations(w1.g) = GeneInnovations(w2.g)
          /\ ConnInnovations(w1.g) = ConnInnovations(w2.g)

\* ------------------------------------------------------------- Population
\* The Population object: population is the list of references to genome
\* objects, best_genome a reference or None, best_fitness <<>> for
\* -float('inf') and <<v>> for v.

\* Population.__init__
NewPopulation(population_size) ==
    [population_size |-> population_size,
     population      |-> <<>>,
     fitness_scores  |-> [i \in 1 .. population_size |-> 0],
     best_genome     |-> None,
     best_fitness    |-> <<>>]

\* Population.create_initial_population: every outcome, as
\* [heap, im, pop], of appending population_size new genomes.
RECURSIVE create_initial_population(_, _, _, _, _)
create_initial_population(h, m, pop, shape, k) ==
    IF k >= pop.population_size
    THEN {[heap |-> h, im |-> m, pop |-> pop]}
    ELSE UNION { create_initial_population(
                    Alloc(h, w.g), w.im,
                    [pop EXCEPT !.population = Append(@, Len(h.objs) + 1)],
                    shape, k + 1)
                 : w \in create_initial_genome_population(
                            m, shape.num_inputs, shape.num_outputs,
                            shape.initial_hidden_nodes) }

RECURSIVE SumOf(_, _)
SumOf(f, S) ==
    IF S = {} THEN 0
    ELSE LET x == CHOOSE y \in S : TRUE IN f[x] + SumOf(f, S \ {x})

\* The fitness evaluations of the runs, each a fixed function of the
\* genome's structure: minus the absolute value of the sum of its weights,
\* and minus the number of its node genes.
FitnessFunctions == {"weights", "genes"}

FitnessFunction(fn, g) ==
    LET total == SumOf(g.connections, DOMAIN g.connections)
    IN  IF fn = "weights"
        THEN (IF total >= 0 THEN 0 - total ELSE total)
        ELSE 0 - Cardinality(DOMAIN g.genes)

\* The loop of Population.evaluate_fitness from the k-th genome on.
RECURSIVE EvaluateFrom(_, _, _, _)
EvaluateFrom(h, pop, fn, k) ==
    IF k > Len(pop.population)
    THEN [heap |-> h, pop |-> pop]
    ELSE LET o == pop.population[k]
             fitness == FitnessFunction(fn, Deref(h, o))
             better == pop.best_fitness = <<>> \/ fitness > pop.best_fitness[1]
         IN  EvaluateFrom(
                [h EXCEPT !.objs[o].fitness = <<fitness>>],
                [pop EXCEPT !.fitness_scores = Append(@, fitness),
                            !.best_fitness = IF better THEN <<fitness>> ELSE @,
                            !.best_genome = IF better THEN o ELSE @],
                fn, k + 1)

\* Population.evaluate_fitness
evaluate_fitness(h, pop, fn) ==
    EvaluateFrom(h, [pop EXCEPT !.fitness_scores = <<>>], fn, 1)

\* sorted(refs, key=fitness, reverse=True): a stable sort, so genomes of
\* equal fitness keep their order.
RECURSIVE SortedByFitness(_, _)
SortedByFitness(h, refs) ==
    IF refs = <<>>
    THEN <<>>
    ELSE LET rest == SortedByFitness(h, SubSeq(refs, 1, Len(refs) - 1))
             x == refs[Len(refs)]
             ahead == {i \in 1 .. Len(rest) :
                         h.objs[rest[i]].fitness[1] >= h.objs[x].fitness[1]}
             at == Cardinality(ahead)
         IN  SubSeq(rest, 1, at) \o <<x>> \o SubSeq(rest, at + 1, Len(rest))

\* select_genomes taking the tail of the sorted list.
select_genomes_worst(h, pop) ==
    LET sorted_population == SortedByFitness(h, pop.population)
        fifth == pop.population_size \div 5
        num_selected == IF fifth > 1 THEN fifth ELSE 1
        n == Len(sorted_population)
    IN  SubSeq(sorted_population, n - Min({num_selected, n}) + 1, n)

\* Population.select_genomes
select_genomes(h, pop) ==
    LET sorted_population == SortedByFitness(h, pop.population)
        fifth == pop.population_size \div 5
        num_selected == IF fifth > 1 THEN fifth ELSE 1
    IN  SubSeq(sorted_population, 1, Min({num_selected, Len(sorted_population)}))

\* The child object after mutate(child, ...) and child.mutate_biases(...)
\* have turned its value into g2.
Mutated(h, child, g2) ==
    Store(h, child, g2, DOMAIN g2.genes # DOMAIN Deref(h, child).genes)

\* One pass of the loop of reproduce_and_mutate: every outcome of drawing
\* two parents among the selected genomes, crossing them, and calling
\* mutate() and mutate_biases on the child, which is appended.
OneChild(st, selected, mutation_rate, bias_mutation_rate, bias_mutation_power) ==
    UNION { UNION { { [heap |-> Mutated(r.heap, r.ret, g2),
                       im |-> w.im,
                       new_population |-> Append(st.new_population, r.ret)]
                      : g2 \in mutate_biases(w.g, bias_mutation_rate, bias_mutation_power) }
                    : w \in mutate([g |-> Deref(r.heap, r.ret), im |-> r.im],
                                   [DefaultRates EXCEPT !.mutation_rate = mutation_rate]) }
            : r \in UNION { crossover_objects(st.heap, selected[i], selected[j], st.im)
                            : i \in DOMAIN selected, j \in DOMAIN selected } }

\* The while loop of reproduce_and_mutate.
RECURSIVE Breed(_, _, _, _, _, _)
Breed(st, selected, population_size, mutation_rate, bias_mutation_rate, bias_mutation_power) ==
    IF Len(st.new_population) >= population_size
    THEN {st}
    ELSE UNION { Breed(st1, selected, population_size, mutation_rate,
                       bias_mutation_rate, bias_mutation_power)
                 : st1 \in OneChild(st, selected, mutation_rate,
                                    bias_mutation_rate, bias_mutation_power) }

\* reproduce_and_mutate whose loop runs once more.
reproduce_and_mutate_extra(h, m, pop, population_size, mutation_rate) ==
    LET selected_genomes == select_genomes(h, pop)
    IN  { [heap |-> st.heap, im |-> st.im,
           pop  |-> [pop EXCEPT !.population = st.new_population]]
          : st \in Breed([heap |-> h, im |-> m, new_population |-> selected_genomes],
                         selected_genomes, population_size + 1, mutation_rate,
                         (3 * One) \div 10, (3 * One) \div 10) }

\* Population.reproduce_and_mutate with the module's crossover and mutate
\* and the default bias arguments: every outcome [heap, im, pop]. With no
\* genome selected random.choice raises as soon as a child is needed, and
\* there is no outcome.
reproduce_and_mutate(h, m, pop, population_size, mutation_rate) ==
    LET selected_genomes == select_genomes(h, pop)
    IN  { [heap |-> st.heap, im |-> st.im,
           pop  |-> [pop EXCEPT !.population = st.new_population]]
          : st \in Breed([heap |-> h, im |-> m, new_population |-> selected_genomes],
                         selected_genomes, population_size, mutation_rate,
                         (3 * One) \div 10, (3 * One) \div 10) }

\* The heap holding new objects for the genomes gs, in that order.
RECURSIVE AllocAll(_, _)
AllocAll(h, gs) ==
    IF gs = <<>> THEN h ELSE AllocAll(Alloc(h, Head(gs)), Tail(gs))

\* The objects no attribute of the Population refers to any more are
\* dropped: what is left is the genomes of pop.population, in that order,
\* then best_genome when it is not one of them. No two genomes of a
\* population share a container.
Collect(h, pop) ==
    LET extra == IF pop.best_genome # None
                    /\ \A i \in DOMAIN pop.population : pop.population[i] # pop.best_genome
                 THEN <<pop.best_genome>> ELSE <<>>
        roots == pop.population \o extra
    IN  [heap |-> AllocAll(EmptyHeap, [i \in DOMAIN roots |-> Deref(h, roots[i])]),
         pop  |-> [pop EXCEPT
                     !.population = [i \in DOMAIN pop.population |-> i],
                     !.best_genome = IF @ = None THEN None
                                     ELSE CHOOSE i \in DOMAIN roots : roots[i] = @]]

\* ---------------------------------------------------------------- SpecPop
\* A Population of population_size genomes taken through generations:
\* create_initial_population once, then evaluate_fitness and
\* reproduce_and_mutate(population_size, mutation_rate, crossover, mutate)
\* in any order the calls do not raise in.

\* The population sizes, and the innovation numbers and genome ids the runs
\* go up to.
MaxPopulationSize == 2
MaxPopInnovation == 16
MaxPopGenomeId == 12

PopShapes == {[num_inputs |-> 1, num_outputs |-> 1, initial_hidden_nodes |-> 0]}

\* The samples of GenomeDraws, and the fitness evaluation of the run.
PopDraws(fn) ==
    [activation |-> GenomeDraws.activation,
     uniform    |-> GenomeDraws.uniform,
     delta      |-> {0},
     fitness    |-> {0},
     fitness_function |-> fn]

InitPop ==
    /\ \E fn \in FitnessFunctions : draws = PopDraws(fn)
    /\ \E n \in 1 .. MaxPopulationSize : population = NewPopulation(n)
    /\ heap = EmptyHeap
    /\ im = NewInnovationManager
    /\ genome = NoGenome
    /\ stagnation = <<>>
    /\ op = [name |-> "init", args |-> <<>>, ret |-> None]

\* population.create_initial_population(num_inputs, num_outputs, 0)
PopCreate ==
    /\ population.population = <<>>
    /\ \E shape \in PopShapes :
         \E r \in create_initial_population(heap, im, population, shape, 0) :
            /\ Within(r, MaxPopInnovation, MaxPopGenomeId)
            /\ heap' = r.heap
            /\ im' = r.im
            /\ population' = r.pop
    /\ op' = [name |-> "create_initial_population", args |-> <<>>, ret |-> None]
    /\ UNCHANGED <<genome, draws, stagnation>>

\* population.evaluate_fitness(graph_data)
PopEvaluate ==
    /\ population.population # <<>>
    /\ LET r == evaluate_fitness(heap, population, draws.fitness_function)
           c == Collect(r.heap, r.pop)
       IN  /\ heap' = c.heap
           /\ population' = c.pop
    /\ op' = [name |-> "evaluate_fitness", args |-> <<>>, ret |-> None]
    /\ UNCHANGED <<im, genome, draws, stagnation>>

\* population.reproduce_and_mutate(population_size, 0.3, crossover, mutate);
\* sorting or crossing genomes never evaluated raises before any change.
PopReproduce ==
    /\ population.population # <<>>
    /\ \A i \in DOMAIN population.population :
          heap.objs[population.population[i]].fitness # <<>>
    /\ \E r \in reproduce_and_mutate(heap, im, population, population.population_size,
                                     DefaultRates.mutation_rate) :
         LET c == Collect(r.heap, r.pop)
         IN  /\ Within(r, MaxPopInnovation, MaxPopGenomeId)
             /\ heap' = c.heap
             /\ im' = r.im
             /\ population' = c.pop
    /\ op' = [name |-> "reproduce_and_mutate",
              args |-> <<population.population_size, DefaultRates.mutation_rate>>,
              ret |-> None]
    /\ UNCHANGED <<genome, draws, stagnation>>

NextPop ==
    \/ PopCreate
    \/ PopEvaluate
    \/ PopReproduce

SpecPop == InitPop /\ [][NextPop]_vars

\* C15: after every reproduce_and_mutate(population_size, ...) of a
\* Population built with population_size = n >= 1, len(population) = n.
C15_PopulationSizeKept ==
    op.name = "reproduce_and_mutate" =>
       Len(population.population) = population.population_size

\* C15 witness: a second generation of two genomes has been bred.
C15_Witness ==
    /\ op.name = "reproduce_and_mutate"
    /\ population.population_size >= 2
    /\ Len(population.population) = population.population_size
    /\ im.next_genome_id_counter >= 4 * population.population_size

Scores(pop) == {pop.fitness_scores[i] : i \in DOMAIN pop.fitness_scores}

C17_SelectedCarriedVerbatim ==
    [][op'.name = "reproduce_and_mutate" =>
          LET selected_genomes == select_genomes(heap, population)
          IN  \A i \in DOMAIN selected_genomes :
                 /\ i \in DOMAIN population'.population
                 /\ Deref(heap', population'.population[i])
                       = Deref(heap, selected_genomes[i])]_vars

\* C17 witness: a child bred from the selected genome, with itself as
\* both parents, has been mutated into a different set of node genes.
C17_Witness ==
    /\ op.name = "reproduce_and_mutate"
    /\ Len(population.population) = 2
    /\ DOMAIN Deref(heap, population.population[2]).genes
          # DOMAIN Deref(heap, population.population[1]).genes
    /\ Deref(heap, population.population[1]).genes # <<>>

\* ------------------------------------------------ Species, StagnationManager
\* A species is the record of the attributes the stagnation bookkeeping
\* reads and writes: best_fitness, historical_best_fitness, last_improved
\* and members, the list of the fitness values of its member genomes.

\* Species.__init__ on a representative genome of fitness f.
NewSpecies(f) ==
    [best_fitness            |-> f,
     historical_best_fitness |-> f,
     last_improved           |-> 0,
     members                 |-> <<f>>]

\* Species.update_best_fitness(fitness). current_generation is the module
\* global the method reads, None when nothing has defined it: the read then
\* raises NameError after the two assignments before it.
update_best_fitness(spec, fitness, current_generation) ==
    IF fitness > spec.best_fitness
    THEN [spec EXCEPT
            !.best_fitness = fitness,
            !.historical_best_fitness = Max({@, fitness}),
            !.last_improved = IF current_generation = None THEN @
                              ELSE current_generation]
    ELSE spec

\* StagnationManager.__init__: species_last_improved maps a species to a
\* generation, None for a species that is not a key; sorted_species is the
\* SortedList, each entry a species with the key computed when it was added.
NewStagnationManager(max_stagnation, elitism, num_species) ==
    [max_stagnation        |-> max_stagnation,
     elitism               |-> elitism,
     species_last_improved |-> [s \in 1 .. num_species |-> None],
     sorted_species        |-> <<>>]

\* spec in sorted_species: the search goes by the key of spec as it is now,
\* through the entries stored under that key.
Contains(sorted_species, spec, key) ==
    \E i \in DOMAIN sorted_species :
       sorted_species[i].spec = spec /\ sorted_species[i].key = key

\* sorted_species.remove(spec), called when spec is found.
Remove(sorted_species, spec, key) ==
    LET i == CHOOSE j \in DOMAIN sorted_species :
                sorted_species[j].spec = spec /\ sorted_species[j].key = key
    IN  SubSeq(sorted_species, 1, i - 1)
           \o SubSeq(sorted_species, i + 1, Len(sorted_species))

\* sorted_species.add(spec): after the entries whose key is not greater.
Add(sorted_species, spec, key) ==
    LET at == Cardinality({i \in DOMAIN sorted_species : sorted_species[i].key <= key})
    IN  SubSeq(sorted_species, 1, at) \o <<[spec |-> spec, key |-> key]>>
           \o SubSeq(sorted_species, at + 1, Len(sorted_species))

\* The first loop of update over species_list from its k-th element on.
RECURSIVE Resort(_, _, _, _)
Resort(sorted_species, species, species_list, k) ==
    IF k > Len(species_list)
    THEN sorted_species
    ELSE LET spec == species_list[k]
             key == species[spec].best_fitness
         IN  Resort(IF Contains(sorted_species, spec, key)
                    THEN Add(Remove(sorted_species, spec, key), spec, key)
                    ELSE Add(sorted_species, spec, key),
                    species, species_list, k + 1)

\* The second loop of update from the k-th entry of sorted_species on; st
\* holds species, species_last_improved, stagnation_status and results.
RECURSIVE Judge(_, _, _, _, _)
Judge(st, sorted_species, max_stagnation, generation, k) ==
    IF k > Len(sorted_species)
    THEN st
    ELSE LET spec == sorted_species[k].spec
             sp == st.species[spec]
             improved == st.species_last_improved[spec] = None
                            \/ sp.best_fitness > sp.historical_best_fitness
             stagnant == ~improved
                            /\ generation - st.species_last_improved[spec] >= max_stagnation
         IN  Judge([species |->
                      IF improved
                      THEN [st.species EXCEPT ![spec].historical_best_fitness =
                               Max({@, sp.best_fitness})]
                      ELSE st.species,
                    species_last_improved |->
                      IF improved
                      THEN [st.species_last_improved EXCEPT ![spec] = generation]
                      ELSE st.species_last_improved,
                    stagnation_status |-> [st.stagnation_status EXCEPT ![spec] = stagnant],
                    results |-> Append(st.results, spec)],
                   sorted_species, max_stagnation, generation, k + 1)

\* max(g.fitness for g in spec.members)
BestMember(sp) == Max({sp.members[i] : i \in DOMAIN sp.members})

\* results.sort(key=best member fitness, reverse=True): a stable sort.
RECURSIVE SortedByBestMember(_, _)
SortedByBestMember(species, results) ==
    IF results = <<>>
    THEN <<>>
    ELSE LET rest == SortedByBestMember(species, SubSeq(results, 1, Len(results) - 1))
             x == results[Len(results)]
             ahead == {i \in 1 .. Len(rest) :
                         BestMember(species[rest[i]]) >= BestMember(species[x])}
             at == Cardinality(ahead)
         IN  SubSeq(rest, 1, at) \o <<x>> \o SubSeq(rest, at + 1, Len(rest))

\* StagnationManager.update(species_list, generation): the species and the
\* manager after the call, the mapping returned (None for a species that
\* is not a key of it) and the set of its keys.
update(species, sm, species_list, generation) ==
    LET sorted_species == Resort(sm.sorted_species, species, species_list, 1)
        st == Judge([species |-> species,
                     species_last_improved |-> sm.species_last_improved,
                     stagnation_status |-> [s \in DOMAIN species |-> None],
                     results |-> <<>>],
                    sorted_species, sm.max_stagnation, generation, 1)
        results == SortedByBestMember(st.species, st.results)
        top == {results[i] : i \in 1 .. Min({sm.elitism, Len(results)})}
    IN  [species |-> st.species,
         sm      |-> [sm EXCEPT !.sorted_species = sorted_species,
                                !.species_last_improved = st.species_last_improved],
         ret     |-> [s \in DOMAIN species |->
                        IF s \in top THEN FALSE ELSE st.stagnation_status[s]],
         keys    |-> {st.results[i] : i \in DOMAIN st.results} \cup top]

\* --------------------------------------------------------- SpecStagnation
\* A StagnationManager and the species of a run. Between two update calls
\* the species change as a generation changes them: a member is evaluated,
\* best_fitness is raised through update_best_fitness or assigned. update
\* is called with the whole list of species and the generations 0, 1, 2, ...

\* The number of species, the fitness values 0 .. MaxFitness, the last
\* generation, and the largest max_stagnation and elitism of the runs.
NumSpecies == 2
MaxFitness == 1
MaxGeneration == 2
MaxStagnationLimit == 2
MaxElitism == 2

SpeciesIds == 1 .. NumSpecies
Fitnesses == 0 .. MaxFitness

\* What the run has shown of each species at the update calls so far:
\* seen, its best_fitness at the last call (None before the first); peak,
\* the greatest best_fitness it has had at its construction or at a call;
\* rose, whether its best_fitness at every call after the first was
\* strictly greater than at the call before; flat, the number of calls in
\* a row, up to the last, at which its best_fitness was the one of the call
\* before; since, the number of calls since the last one at which it was
\* first seen or its best_fitness exceeded peak.
NewLog(species) ==
    [seen  |-> [s \in DOMAIN species |-> None],
     peak  |-> [s \in DOMAIN species |-> species[s].best_fitness],
     rose  |-> [s \in DOMAIN species |-> TRUE],
     flat  |-> [s \in DOMAIN species |-> 0],
     since |-> [s \in DOMAIN species |-> 0]]

Logged(log, species) ==
    [seen  |-> [s \in DOMAIN species |-> species[s].best_fitness],
     peak  |-> [s \in DOMAIN species |-> Max({log.peak[s], species[s].best_fitness})],
     rose  |-> [s \in DOMAIN species |->
                  log.rose[s] /\ (log.seen[s] = None
                                    \/ species[s].best_fitness > log.seen[s])],
     flat  |-> [s \in DOMAIN species |->
                  IF log.seen[s] # None /\ species[s].best_fitness = log.seen[s]
                  THEN log.flat[s] + 1 ELSE 0],
     since |-> [s \in DOMAIN species |->
                  IF log.seen[s] = None \/ species[s].best_fitness > log.peak[s]
                  THEN 0 ELSE log.since[s] + 1]]

InitStagnation ==
    /\ \E max_stagnation \in 1 .. MaxStagnationLimit, elitism \in 0 .. MaxElitism,
          fs \in [SpeciesIds -> Fitnesses], current_generation \in {None, 0} :
         LET species == [s \in SpeciesIds |-> NewSpecies(fs[s])]
         IN  stagnation =
                [species            |-> species,
                 sm                 |-> NewStagnationManager(max_stagnation, elitism, NumSpecies),
                 generation         |-> 0,
                 current_generation |-> current_generation,
                 stagnation_status  |-> <<>>,
                 log                |-> NewLog(species)]
    /\ heap = EmptyHeap
    /\ population = <<>>
    /\ im = NewInnovationManager
    /\ genome = NoGenome
    /\ draws = GenomeDraws
    /\ op = [name |-> "init", args |-> <<>>, ret |-> None]

\* genome.evaluate_genome(...) on the member of species s: its fitness
\* becomes f.
StagEvaluate ==
    /\ \E s \in SpeciesIds, f \in Fitnesses :
         /\ stagnation.species[s].members # <<f>>
         /\ stagnation' = [stagnation EXCEPT !.species[s].members = <<f>>]
         /\ op' = [name |-> "evaluate_genome", args |-> <<s>>, ret |-> f]
    /\ UNCHANGED <<im, genome, draws, heap, population>>

\* species.update_best_fitness(f)
StagUpdateBestFitness ==
    /\ \E s \in SpeciesIds, f \in Fitnesses :
         /\ f > stagnation.species[s].best_fitness
         /\ stagnation' = [stagnation EXCEPT !.species[s] =
                              update_best_fitness(@, f, stagnation.current_generation)]
         /\ op' = [name |-> "update_best_fitness", args |-> <<s, f>>, ret |-> None]
    /\ UNCHANGED <<im, genome, draws, heap, population>>

\* species.best_fitness = f
StagSetBestFitness ==
    /\ \E s \in SpeciesIds, f \in Fitnesses :
         /\ f # stagnation.species[s].best_fitness
         /\ stagnation' = [stagnation EXCEPT !.species[s].best_fitness = f]
         /\ op' = [name |-> "set_best_fitness", args |-> <<s, f>>, ret |-> None]
    /\ UNCHANGED <<im, genome, draws, heap, population>>

\* stagnation_status = manager.update(species_list, generation), then the
\* next generation begins.
StagUpdate ==
    /\ stagnation.generation <= MaxGeneration
    /\ LET r == update(stagnation.species, stagnation.sm,
                       [s \in SpeciesIds |-> s], stagnation.generation)
       IN  stagnation' =
              [species            |-> r.species,
               sm                 |-> r.sm,
               generation         |-> stagnation.generation + 1,
               current_generation |-> IF stagnation.current_generation = None THEN None
                                      ELSE stagnation.generation + 1,
               stagnation_status  |-> r.ret,
               log                |-> Logged(stagnation.log, stagnation.species)]
    /\ op' = [name |-> "update", args |-> <<stagnation.generation>>, ret |-> None]
    /\ UNCHANGED <<im, genome, draws, heap, population>>

NextStagnation ==
    \/ StagEvaluate
    \/ StagUpdateBestFitness
    \/ StagSetBestFitness
    \/ StagUpdate

SpecStagnation == InitStagnation /\ [][NextStagnation]_vars

\* The species that come before s in every ranking by best member fitness,
\* and those that come before it in some ranking.
StrictlyAhead(s) ==
    {t \in SpeciesIds \ {s} :
        BestMember(stagnation.species[t]) > BestMember(stagnation.species[s])}
PossiblyAhead(s) ==
    {t \in SpeciesIds \ {s} :
        BestMember(stagnation.species[t]) >= BestMember(stagnation.species[s])}

\* C18: in the mapping an update returns, a species whose best_fitness was
\* strictly greater at every update than at the one before is not stagnant.
C18_RisingNeverStagnant ==
    op.name = "update" =>
       \A s \in SpeciesIds :
          stagnation.log.rose[s] => stagnation.stagnation_status[s] = FALSE

\* C19: in the mapping an update returns, a species whose best_fitness has
\* been the same for max_stagnation updates in a row is stagnant unless it
\* is among the top elitism species by best member fitness, and a species
\* first seen or improved less than max_stagnation updates ago is not.
C19_FlatBecomesStagnant ==
    op.name = "update" =>
       \A s \in SpeciesIds :
          /\ (/\ stagnation.log.flat[s] >= stagnation.sm.max_stagnation
              /\ Cardinality(StrictlyAhead(s)) >= stagnation.sm.elitism)
                => stagnation.stagnation_status[s] = TRUE
          /\ stagnation.log.since[s] < stagnation.sm.max_stagnation
                => stagnation.stagnation_status[s] = FALSE

\* C20: in the mapping an update returns, a species that fewer than elitism
\* other species equal or exceed in best member fitness is not stagnant.
C20_ElitesNeverStagnant ==
    op.name = "update" =>
       \A s \in SpeciesIds :
          Cardinality(PossiblyAhead(s)) < stagnation.sm.elitism
             => stagnation.stagnation_status[s] = FALSE

\* ================================================================ C21 - C30

\* ----------------------------------------------- compatibility distance

\* The loop over range(1, max + 1) with the excess / disjoint counting of
\* calculate_compatibility_distance, where the boundary is the
\* representative's greatest innovation number instead of the smaller of
\* the two.
ExcessDisjoint_first(numbers1, numbers2) ==
    LET max1 == IF numbers1 = {} THEN 0 ELSE Max(numbers1)
        max2 == IF numbers2 = {} THEN 0 ELSE Max(numbers2)
        single == {i \in 1 .. Max({max1, max2}) : (i \in numbers1) # (i \in numbers2)}
    IN  [excess   |-> Cardinality({i \in single : i > max1}),
         disjoint |-> Cardinality({i \in single : i <= max1})]

\* The loop over range(1, max + 1) of calculate_compatibility_distance: an
\* innovation number only one of the two sets holds is excess above the
\* smaller of the two maxima, disjoint otherwise.
ExcessDisjoint(numbers1, numbers2) ==
    LET max1 == IF numbers1 = {} THEN 0 ELSE Max(numbers1)
        max2 == IF numbers2 = {} THEN 0 ELSE Max(numbers2)
        single == {i \in 1 .. Max({max1, max2}) : (i \in numbers1) # (i \in numbers2)}
    IN  [excess   |-> Cardinality({i \in single : i > Min({max1, max2})}),
         disjoint |-> Cardinality({i \in single : i <= Min({max1, max2})})]

\* The sum of abs(weight1 - weight2) over the connection innovations both
\* genomes carry (total_weight_diff).
TotalWeightDiff(connections1, connections2) ==
    LET both == {k[3] : k \in DOMAIN connections1} \cap {k[3] : k \in DOMAIN connections2}
        diff == [i \in both |->
                   LET d == connections1[ConnItem(connections1, i)[1]]
                               - connections2[ConnItem(connections2, i)[1]]
                   IN  IF d >= 0 THEN d ELSE 0 - d]
    IN  SumOf(diff, both)

\* Species.calculate_compatibility_distance(genome, c1, c2, c3) of the
\* species whose representative_genome is representative_genome. The
\* coefficients are in units of 1/WeightScale; the distance returned is the
\* fraction num / den with num in units of 1/WeightScale^2. weight_diff is
\* the variable of that name, which the method sets to 0 and never updates.
calculate_compatibility_distance(representative_genome, g, c1, c2, c3) ==
    LET genes1 == representative_genome.genes
        genes2 == g.genes
        connections1 == representative_genome.connections
        connections2 == g.connections
        of_genes == ExcessDisjoint({GeneInnovation(genes1[n]) : n \in DOMAIN genes1},
                                   {GeneInnovation(genes2[n]) : n \in DOMAIN genes2})
        of_connections == ExcessDisjoint({k[3] : k \in DOMAIN connections1},
                                         {k[3] : k \in DOMAIN connections2})
        excess == of_genes.excess + of_connections.excess
        disjoint == of_genes.disjoint + of_connections.disjoint
        weight_diff == 0
        total_weight_diff == TotalWeightDiff(connections1, connections2)
        size == Max({Cardinality(DOMAIN genes1), Cardinality(DOMAIN genes2),
                     Cardinality(DOMAIN connections1), Cardinality(DOMAIN connections2)})
        N == IF size = 0 THEN 1 ELSE size
    IN  [num |-> (c1 * excess * One) + (c2 * disjoint * One) + (c3 * weight_diff),
         den |-> N]

\* is_compatible with distance < compatibility_threshold.
is_compatible_strict(representative_genome, g, compatibility_threshold) ==
    LET distance == calculate_compatibility_distance(representative_genome, g, One, One, One)
    IN  distance.num < compatibility_threshold * One * distance.den

\* Species.is_compatible(genome, compatibility_threshold)
is_compatible(representative_genome, g, compatibility_threshold) ==
    LET distance == calculate_compatibility_distance(representative_genome, g, One, One, One)
    IN  distance.num <= compatibility_threshold * One * distance.den

\* -------------------------------------------------------------- SpecSpecies
\* Two genomes, the second a copy() of the first or a genome built like
\* it, each changed by mutation operators; a Species built on one of them
\* measures the other, or itself.

\* The innovation numbers the runs of SpecSpecies go up to.
MaxSpeciesInnovation == 8

\* The coefficient triples (c1, c2, c3) and the thresholds of the calls.
Coefficients == {<<One, One, One>>, <<0, One \div 2, One>>}
Thresholds == {0, One}

\* The second genome: first.copy(), or create_initial_genome_population.
SpeciesSecond ==
    /\ Len(heap.objs) = 1
    /\ \E r \in copy(heap, 1, im) \cup
                { [heap |-> Alloc(heap, w.g), im |-> w.im, ret |-> 2]
                  : w \in UNION { create_initial_genome_population(
                                     im, shape.num_inputs, shape.num_outputs,
                                     shape.initial_hidden_nodes) : shape \in CopyShapes } } :
          /\ r.im.next_innovation_number <= MaxSpeciesInnovation
          /\ heap' = r.heap
          /\ im' = r.im
          /\ op' = [name |-> "second", args |-> <<>>, ret |-> r.ret]
    /\ UNCHANGED <<genome, draws, population, stagnation>>

\* One of the mutation operators on one of the genomes.
SpeciesMutate ==
    \E o \in DOMAIN heap.objs, method \in Methods :
       CallWithin(o, method, MaxSpeciesInnovation)

\* Species(o1).calculate_compatibility_distance(o2, c1, c2, c3)
SpeciesDistance ==
    /\ \E o1, o2 \in DOMAIN heap.objs, c \in Coefficients :
          op' = [name |-> "calculate_compatibility_distance",
                 args |-> <<o1, o2, c>>,
                 ret  |-> calculate_compatibility_distance(
                             Deref(heap, o1), Deref(heap, o2), c[1], c[2], c[3])]
    /\ UNCHANGED <<im, genome, draws, heap, population, stagnation>>

\* Species(o1).is_compatible(o2, compatibility_threshold)
SpeciesIsCompatible ==
    /\ \E o1, o2 \in DOMAIN heap.objs, t \in Thresholds :
          op' = [name |-> "is_compatible",
                 args |-> <<o1, o2, t>>,
                 ret  |-> is_compatible(Deref(heap, o1), Deref(heap, o2), t)]
    /\ UNCHANGED <<im, genome, draws, heap, population, stagnation>>

NextSpecies ==
    \/ SpeciesSecond
    \/ SpeciesMutate
    \/ SpeciesDistance
    \/ SpeciesIsCompatible

SpecSpecies == InitCopy /\ [][NextSpecies]_vars

\* The two genomes of the distance call op records.
FirstOf(o) == Deref(heap, o.args[1])
SecondOf(o) == Deref(heap, o.args[2])

\* C21: the distance returned is (c1*excess + c2*disjoint + c3*W) / N with
\* W the sum of |weightA - weightB| over the connection innovations both
\* genomes carry, and two genomes with the same genes and connection keys
\* and a different weight on a connection are at a distance > 0 when c3 > 0.
C21_DistanceFormula ==
    op.name = "calculate_compatibility_distance" =>
       LET a == FirstOf(op)
           b == SecondOf(op)
           c == op.args[3]
           W == TotalWeightDiff(a.connections, b.connections)
           same_shape == /\ a.genes = b.genes
                         /\ DOMAIN a.connections = DOMAIN b.connections
           zero_weight == calculate_compatibility_distance(a, b, c[1], c[2], 0)
       IN  /\ op.ret.num = zero_weight.num + c[3] * W
           /\ (same_shape /\ a.connections # b.connections /\ c[3] > 0)
                 => op.ret.num > 0

\* C22: Species(A).calculate_compatibility_distance(B, c1, c2, c3) equals
\* Species(B).calculate_compatibility_distance(A, c1, c2, c3).
C22_DistanceSymmetric ==
    op.name = "calculate_compatibility_distance" =>
       op.ret = calculate_compatibility_distance(
                   SecondOf(op), FirstOf(op), op.args[3][1], op.args[3][2], op.args[3][3])

\* C22 witness: the distance of two genomes that differ in their gene and
\* connection innovations, with excess and disjoint ones, has been taken.
C22_Witness ==
    /\ op.name = "calculate_compatibility_distance"
    /\ op.args[1] # op.args[2]
    /\ op.ret.num > 0
    /\ LET n1 == {k[3] : k \in DOMAIN FirstOf(op).connections}
           n2 == {k[3] : k \in DOMAIN SecondOf(op).connections}
       IN  /\ ExcessDisjoint(n1, n2).excess > 0
           /\ ExcessDisjoint(n1, n2).disjoint > 0
           /\ ExcessDisjoint(n1, n2) # ExcessDisjoint_first(n1, n2)

\* C23: the distance of a genome to itself is 0, and the representative of
\* a species is compatible with the species for every threshold >= 0.
C23_DistanceToSelfIsZero ==
    /\ (op.name = "calculate_compatibility_distance" /\ op.args[1] = op.args[2])
          => op.ret.num = 0
    /\ (op.name = "is_compatible" /\ op.args[1] = op.args[2])
          => op.ret = TRUE

\* C23 witness: a representative with no genes left is compared with
\* itself under threshold 0.
C23_Witness ==
    /\ op.name = "is_compatible"
    /\ op.args[1] = op.args[2]
    /\ op.args[3] = 0
    /\ FirstOf(op).genes = <<>>
    /\ op.ret = TRUE

\* C24: every genome construction that draws its id from the registry
\* (create_initial_genome_population, crossover) advances the genome-id
\* counter by exactly one, so the counter is always one past the id of the
\* genome built last and consecutive new genomes get consecutive ids.
\* In Spec the variable genome is the genome built last: the initial one,
\* then each child of Crossover.
C24_GenomeIdAdvancesByOne ==
    im.next_genome_id_counter = genome.genome_id + 1

\* ----------------------------------------------------------- SpecActivate
\* activate() on genomes that were mutated, pruned and crossed.

\* The position enumerate(self.genes.items()) gives node_id. A dict keeps
\* insertion order; __init__, add_node and crossover() each insert a gene
\* under a key not yet present, in increasing innovation number, and
\* deleting a key keeps the order of the others.
EnumerateIndex(genes, node_id) ==
    Cardinality({n \in DOMAIN genes :
                    GeneInnovation(genes[n]) < GeneInnovation(genes[node_id])})

\* The activation of incoming_sum, in units of 1/WeightScale; sigmoid and
\* tanh are the piecewise linear functions through their values at 0 and
\* their limits.
Activation(activation_type, incoming_sum) ==
    CASE activation_type = "relu" -> Max({0, incoming_sum})
      [] activation_type = "sigmoid" ->
           Min({One, Max({0, (One \div 2) + (incoming_sum \div 4)})})
      [] activation_type = "tanh" -> Min({One, Max({0 - One, incoming_sum})})
      [] OTHER -> incoming_sum

\* The loop of activate() over sorted(self.genes.keys()), from the nodes
\* still to visit.
RECURSIVE ActivateNodes(_, _, _)
ActivateNodes(g, node_values, todo) ==
    IF todo = {}
    THEN node_values
    ELSE LET node_id == Min(todo)
             gene == g.genes[node_id]
             incoming == {k \in DOMAIN g.connections :
                             k[2] = node_id /\ k[1] \in DOMAIN node_values}
             bias == IF Len(gene) > 3 THEN gene[4] ELSE 0
             incoming_sum ==
                 SumOf([k \in incoming |->
                           (node_values[k[1]] * g.connections[k]) \div One],
                       incoming) + bias
         IN  IF GeneType(gene) = "input"
             THEN ActivateNodes(g, node_values, todo \ {node_id})
             ELSE IF gene[2] \in {"relu", "sigmoid", "tanh", "identity"}
             THEN ActivateNodes(g, DictSet(node_values, node_id,
                                           Activation(gene[2], incoming_sum)),
                                todo \ {node_id})
             ELSE ActivateNodes(g, node_values, todo \ {node_id})

\* No exception raised.
NoError == "none"

\* activate() that does not compare len(inputs) with the number of inputs.
activate_unchecked(g, inputs) ==
    LET input_nodes == {n \in DOMAIN g.genes : GeneType(g.genes[n]) = "input"}
        node_values == ActivateNodes(
                          g,
                          [n \in {i \in input_nodes :
                                    EnumerateIndex(g.genes, i) < Len(inputs)} |->
                              inputs[EnumerateIndex(g.genes, n) + 1]],
                          DOMAIN g.genes)
    IN  [g |-> g, error |-> NoError,
         values |-> [i \in 1..Len(g.output_nodes) |->
                        IF g.output_nodes[i] \in DOMAIN node_values
                        THEN node_values[g.output_nodes[i]] ELSE 0]]

\* FeedforwardGenome.activate: the genome after the call, the exception
\* raised (NoError when it returns) and the list returned.
activate(g, inputs) ==
    LET input_nodes == {n \in DOMAIN g.genes : GeneType(g.genes[n]) = "input"}
        out_of_range == {n \in input_nodes : EnumerateIndex(g.genes, n) >= Len(inputs)}
        node_values == ActivateNodes(
                          g,
                          [n \in input_nodes |-> inputs[EnumerateIndex(g.genes, n) + 1]],
                          DOMAIN g.genes)
    IN  IF Len(inputs) # get_num_inputs(g)
        THEN [g |-> g, error |-> "ValueError", values |-> <<>>]
        ELSE IF out_of_range # {}
        THEN [g |-> g, error |-> "IndexError", values |-> <<>>]
        ELSE [g |-> g, error |-> NoError,
              values |-> [i \in 1..Len(g.output_nodes) |->
                             IF g.output_nodes[i] \in DOMAIN node_values
                             THEN node_values[g.output_nodes[i]] ELSE 0]]

MaxActInnovation == 9
MaxInputs == 3

ActShapes == {[num_inputs |-> 2, num_outputs |-> 1, initial_hidden_nodes |-> 0]}

\* The input vectors: 1.0, 2.0, ... in that order, of every length up to
\* MaxInputs.
InputVectors == {[i \in 1..n |-> i * One] : n \in 0..MaxInputs}

InitActivate ==
    /\ draws = GenomeDraws
    /\ \E shape \in ActShapes :
         \E w \in create_initial_genome_population(
                     NewInnovationManager, shape.num_inputs, shape.num_outputs,
                     shape.initial_hidden_nodes) :
            /\ heap = Alloc(EmptyHeap, w.g)
            /\ im = w.im
    /\ genome = NoGenome
    /\ population = <<>>
    /\ stagnation = <<>>
    /\ op = [name |-> "init", args |-> <<>>, ret |-> None]

\* A mutation operator on any genome.
ActMutate ==
    \E o \in DOMAIN heap.objs, method \in Methods :
        CallWithin(o, method, MaxActInnovation)

\* child = crossover(o1, o2, innovation_manager) of evaluated genomes.
ActCrossover ==
    /\ \E o1, o2 \in Parents :
         LET h == IF Len(heap.objs) > 2 THEN Keep(heap, 2) ELSE heap
         IN  \E r \in crossover_objects(h, o1, o2, im) :
               /\ Within(r, MaxActInnovation, MaxGenomeId)
               /\ heap' = r.heap
               /\ im' = r.im
               /\ op' = [name |-> "crossover", args |-> <<o1, o2>>, ret |-> r.ret]
    /\ UNCHANGED <<genome, draws, population, stagnation>>

\* genome.activate(inputs); op keeps the attributes of the genome as
\* they were at the call.
Activate ==
    /\ \E o \in DOMAIN heap.objs, inputs \in InputVectors :
         LET r == activate(Deref(heap, o), inputs)
         IN  /\ heap' = Store(heap, o, r.g, FALSE)
             /\ op' = [name |-> "activate", args |-> <<o, inputs, Deref(heap, o)>>,
                       ret |-> [error |-> r.error, values |-> r.values]]
    /\ UNCHANGED <<im, genome, draws, population, stagnation>>

NextActivate ==
    \/ CrossEvaluate
    \/ ActMutate
    \/ ActCrossover
    \/ Activate

SpecActivate == InitActivate /\ [][NextActivate]_vars

\* C25: activate(inputs) raises if and only if len(inputs) differs from the
\* number of input nodes the genome has at the call; raising or not, it
\* leaves genes, connections, next_node_id and output_nodes as they were;
\* when it returns, the list has one value per entry of output_nodes.
C25_ActivateChecksShape ==
    op.name = "activate" =>
        LET g  == op.args[3]
            g1 == Deref(heap, op.args[1])
        IN  /\ (op.ret.error # NoError) <=> (Len(op.args[2]) # get_num_inputs(g))
            /\ g1.genes = g.genes
            /\ g1.connections = g.connections
            /\ g1.next_node_id = g.next_node_id
            /\ g1.output_nodes = g.output_nodes
            /\ op.ret.error = NoError => Len(op.ret.values) = Len(g.output_nodes)

\* activate() returned for a genome that lost the first of its two input
\* nodes to pruning.
C25_Witness ==
    /\ op.name = "activate"
    /\ 0 \notin DOMAIN Deref(heap, op.args[1]).genes
    /\ get_num_inputs(Deref(heap, op.args[1])) = 1
    /\ op.ret.error = NoError
    /\ Len(op.args[2]) = 1
    /\ Len(op.ret.values) = 1
    /\ op.ret.values[1] # 0

\* Removing connection key leaves its source, a hidden node, without
\* outgoing connection, or its target, a hidden node, without incoming one.
OrphansHidden(g, key) ==
    LET rest == (DOMAIN g.connections) \ {key}
    IN  \/ /\ key[1] \in DOMAIN g.genes
           /\ GeneType(g.genes[key[1]]) = "hidden"
           /\ ~\E k \in rest : k[1] = key[1]
        \/ /\ key[2] \in DOMAIN g.genes
           /\ GeneType(g.genes[key[2]]) = "hidden"
           /\ ~\E k \in rest : k[2] = key[2]

\* The candidate pair mutate_add_connection rejects.
Rejected(g, in_node, out_node) ==
    \/ in_node >= out_node
    \/ \E k \in DOMAIN g.connections : k[1] = in_node /\ k[2] = out_node

\* C26: a mutation operator whose structural precondition fails returns
\* with genes, connections, next_node_id and the registry as they were:
\* mutate_add_node without connections, mutate_add_connection with an
\* empty pool or a rejected pair, mutate_eliminate_node without hidden
\* node, mutate_eliminate_connection when every removal would orphan a
\* hidden endpoint. Stated of every genome the runs reach.
C26_FailedPreconditionIsNoOp ==
    /\ DOMAIN genome.connections = {} =>
          mutate_add_node(World, PossibleInNodes(genome), PossibleOutNodes(genome)) = {World}
    /\ mutate_add_connection(World, {}, PossibleOutNodes(genome)) = {World}
    /\ mutate_add_connection(World, PossibleInNodes(genome), {}) = {World}
    /\ \A in_node \in PossibleInNodes(genome), out_node \in PossibleOutNodes(genome) :
          Rejected(genome, in_node, out_node) =>
             mutate_add_connection(World, {in_node}, {out_node}) = {World}
    /\ get_num_hidden_nodes(genome) = 0 => mutate_eliminate_node(genome) = {genome}
    /\ (\A k \in DOMAIN genome.connections : OrphansHidden(genome, k)) =>
          mutate_eliminate_connection(genome) = {genome}

\* A genome with two connections or more, each of which holds up a hidden
\* node, and a pair of nodes already connected.
C26_Witness ==
    /\ Cardinality(DOMAIN genome.connections) >= 2
    /\ \A k \in DOMAIN genome.connections : OrphansHidden(genome, k)
    /\ \E in_node \in PossibleInNodes(genome), out_node \in PossibleOutNodes(genome) :
          in_node < out_node /\ Rejected(genome, in_node, out_node)

\* ------------------------------------------------------------- SpecSelect
\* select_genomes on populations large enough for a fifth to exceed one,
\* before and after create_initial_population and evaluate_fitness.

MaxSelectSize == 10

InitSelect ==
    /\ draws = PopDraws("weights")
    /\ \E n \in 1 .. MaxSelectSize : population = NewPopulation(n)
    /\ heap = EmptyHeap
    /\ im = NewInnovationManager
    /\ genome = NoGenome
    /\ stagnation = <<>>
    /\ op = [name |-> "init", args |-> <<>>, ret |-> <<>>]

\* population.create_initial_population(num_inputs, num_outputs, 0)
SelectCreate ==
    /\ population.population = <<>>
    /\ \E shape \in PopShapes :
         \E r \in create_initial_population(heap, im, population, shape, 0) :
            /\ heap' = r.heap
            /\ im' = r.im
            /\ population' = r.pop
    /\ op' = [name |-> "create_initial_population", args |-> <<>>, ret |-> <<>>]
    /\ UNCHANGED <<genome, draws, stagnation>>

\* population.evaluate_fitness(graph_data)
SelectEvaluate ==
    /\ population.population # <<>>
    /\ LET r == evaluate_fitness(heap, population, draws.fitness_function)
       IN  /\ heap' = r.heap
           /\ population' = r.pop
    /\ op' = [name |-> "evaluate_fitness", args |-> <<>>, ret |-> <<>>]
    /\ UNCHANGED <<im, genome, draws, stagnation>>

\* selected = population.select_genomes(); sorting two genomes or more of
\* which one was never evaluated raises. op keeps the list the population
\* held at the call.
SelectGenomes ==
    /\ \/ Len(population.population) <= 1
       \/ \A i \in DOMAIN population.population :
             heap.objs[population.population[i]].fitness # <<>>
    /\ op' = [name |-> "select_genomes", args |-> population.population,
              ret |-> select_genomes(heap, population)]
    /\ UNCHANGED <<im, genome, draws, heap, population, stagnation>>

NextSelect ==
    \/ SelectCreate
    \/ SelectEvaluate
    \/ SelectGenomes

SpecSelect == InitSelect /\ [][NextSelect]_vars

\* max(1, population_size // 5)
Fifth(pop) == Max({1, pop.population_size \div 5})

\* The genomes returned are at least as fit as those left behind, and the
\* population holds the list it held at the call.
SelectedAreBest ==
    /\ \A i \in DOMAIN op.ret : \A j \in DOMAIN population.population :
          (\A k \in DOMAIN op.ret : op.ret[k] # population.population[j]) =>
              heap.objs[op.ret[i]].fitness[1]
                 >= heap.objs[population.population[j]].fitness[1]
    /\ population.population = op.args

NewConnectionMatrix ==
    [matriz |-> <<>>, nodo_a_indice |-> <<>>, indice_a_nodo |-> <<>>,
     siguiente_indice |-> 0, nodos |-> {}]

\* np.zeros((n, n), dtype=bool)
Zeros(n) == [p \in (0 .. n - 1) \X (0 .. n - 1) |-> FALSE]

\* reindexar_nodos that leaves the index as it is: a removed node keeps
\* its slot.
reindexar_nodos_tombstone(cm) ==
    [cm |-> cm, error |-> NoError]

\* reindexar_nodos that carries the entries over by their position in the
\* old matrix, not by the node ids behind the positions.
reindexar_nodos_by_position(cm) ==
    LET nuevo_tamano == Cardinality(cm.nodos)
        nuevo_nodo_a_indice ==
            [nodo_id \in cm.nodos |-> Cardinality({n \in cm.nodos : n < nodo_id})]
        nuevo_indice_a_nodo ==
            [i \in 0 .. nuevo_tamano - 1 |->
                CHOOSE nodo_id \in cm.nodos : nuevo_nodo_a_indice[nodo_id] = i]
        nueva_matriz ==
            [q \in DOMAIN Zeros(nuevo_tamano) |->
                q \in DOMAIN cm.matriz /\ cm.matriz[q]]
    IN  [cm |-> [cm EXCEPT !.matriz = nueva_matriz,
                           !.nodo_a_indice = nuevo_nodo_a_indice,
                           !.indice_a_nodo = nuevo_indice_a_nodo,
                           !.siguiente_indice = nuevo_tamano],
         error |-> NoError]

\* ConnectionMatrix.reindexar_nodos: the object after the call and the
\* exception raised; a connection of the old matrix whose node has no new
\* index raises KeyError before any attribute is assigned.
reindexar_nodos(cm) ==
    LET nuevo_tamano == Cardinality(cm.nodos)
        nuevo_nodo_a_indice ==
            [nodo_id \in cm.nodos |-> Cardinality({n \in cm.nodos : n < nodo_id})]
        nuevo_indice_a_nodo ==
            [i \in 0 .. nuevo_tamano - 1 |->
                CHOOSE nodo_id \in cm.nodos : nuevo_nodo_a_indice[nodo_id] = i]
        conexiones == {p \in DOMAIN cm.matriz : cm.matriz[p]}
        missing == {p \in conexiones :
                       \/ p[1] \notin DOMAIN cm.indice_a_nodo
                       \/ p[2] \notin DOMAIN cm.indice_a_nodo
                       \/ cm.indice_a_nodo[p[1]] \notin cm.nodos
                       \/ cm.indice_a_nodo[p[2]] \notin cm.nodos}
        nueva_matriz ==
            [q \in DOMAIN Zeros(nuevo_tamano) |->
                \E p \in conexiones :
                   /\ nuevo_nodo_a_indice[cm.indice_a_nodo[p[1]]] = q[1]
                   /\ nuevo_nodo_a_indice[cm.indice_a_nodo[p[2]]] = q[2]]
    IN  IF missing # {}
        THEN [cm |-> cm, error |-> "KeyError"]
        ELSE [cm |-> [cm EXCEPT !.matriz = nueva_matriz,
                                !.nodo_a_indice = nuevo_nodo_a_indice,
                                !.indice_a_nodo = nuevo_indice_a_nodo,
                                !.siguiente_indice = nuevo_tamano],
              error |-> NoError]

\* ConnectionMatrix.agregar_nodo
agregar_nodo(cm, nodo_id) ==
    IF nodo_id \notin cm.nodos
    THEN reindexar_nodos(
            [cm EXCEPT !.nodo_a_indice = DictSet(@, nodo_id, cm.siguiente_indice),
                       !.indice_a_nodo = DictSet(@, cm.siguiente_indice, nodo_id),
                       !.siguiente_indice = @ + 1,
                       !.nodos = @ \cup {nodo_id}])
    ELSE [cm |-> cm, error |-> NoError]

\* self.matriz[i, j] = value; numpy raises IndexError outside the array.
SetEntry(r, i, j, value) ==
    IF r.error # NoError
    THEN r
    ELSE IF <<i, j>> \in DOMAIN r.cm.matriz
    THEN [r EXCEPT !.cm.matriz[<<i, j>>] = value]
    ELSE [r EXCEPT !.error = "IndexError"]

\* ConnectionMatrix.agregar_conexion
agregar_conexion(cm, nodo_desde, nodo_hasta) ==
    IF nodo_desde \in cm.nodos /\ nodo_hasta \in cm.nodos
    THEN SetEntry([cm |-> cm, error |-> NoError],
                  cm.nodo_a_indice[nodo_desde], cm.nodo_a_indice[nodo_hasta], TRUE)
    ELSE [cm |-> cm, error |-> NoError]

\* ConnectionMatrix.eliminar_conexiones_nodo: the slices matriz[indice, :]
\* and matriz[:, indice], IndexError for a node that is not held or an
\* index outside the array.
eliminar_conexiones_nodo(cm, nodo_id) ==
    IF nodo_id \notin cm.nodos
    THEN [cm |-> cm, error |-> "IndexError"]
    ELSE LET indice == cm.nodo_a_indice[nodo_id]
         IN  IF \E p \in DOMAIN cm.matriz : p[1] = indice
             THEN [cm |-> [cm EXCEPT !.matriz =
                             [p \in DOMAIN @ |->
                                 IF p[1] = indice \/ p[2] = indice THEN FALSE ELSE @[p]]],
                   error |-> NoError]
             ELSE [cm |-> cm, error |-> "IndexError"]

\* ConnectionMatrix.eliminar_nodo
eliminar_nodo(cm, nodo_id) ==
    IF nodo_id \notin cm.nodos
    THEN [cm |-> cm, error |-> NoError]
    ELSE IF Cardinality(cm.nodos) = 1
    THEN [cm |-> NewConnectionMatrix, error |-> NoError]
    ELSE LET r == eliminar_conexiones_nodo(cm, nodo_id)
         IN  IF r.error # NoError
             THEN r
             ELSE reindexar_nodos([r.cm EXCEPT !.nodos = @ \ {nodo_id}])

\* One loop of modificar_conexiones_nodo over the items of a dict still to
\* visit, in key order; incoming says which side of the pair nodo_id is on.
RECURSIVE ModificarDesde(_, _, _, _, _)
ModificarDesde(r, indice_nodo, conexiones, todo, incoming) ==
    IF todo = {} \/ r.error # NoError
    THEN r
    ELSE LET nodo_conectado == Min(todo)
             indice_conectado == r.cm.nodo_a_indice[nodo_conectado]
             r1 == IF nodo_conectado \notin r.cm.nodos
                   THEN r
                   ELSE IF incoming
                   THEN SetEntry(r, indice_conectado, indice_nodo, conexiones[nodo_conectado])
                   ELSE SetEntry(r, indice_nodo, indice_conectado, conexiones[nodo_conectado])
         IN  ModificarDesde(r1, indice_nodo, conexiones, todo \ {nodo_conectado}, incoming)

\* ConnectionMatrix.modificar_conexiones_nodo
modificar_conexiones_nodo(cm, nodo_id, nuevas_conexiones_entrantes, nuevas_conexiones_salientes) ==
    IF nodo_id \notin cm.nodos
    THEN [cm |-> cm, error |-> NoError]
    ELSE LET indice_nodo == cm.nodo_a_indice[nodo_id]
             r1 == ModificarDesde([cm |-> cm, error |-> NoError], indice_nodo,
                                  nuevas_conexiones_entrantes,
                                  DOMAIN nuevas_conexiones_entrantes, TRUE)
         IN  ModificarDesde(r1, indice_nodo, nuevas_conexiones_salientes,
                            DOMAIN nuevas_conexiones_salientes, FALSE)

\* ------------------------------------------------------------- SpecMatrix
\* One ConnectionMatrix, object 1 of the heap, under any sequence of its
\* methods.

MaxNodeId == 2
MaxConnections == 2

NodeIds == 0 .. MaxNodeId

\* The dicts passed to modificar_conexiones_nodo: empty or with one item.
ConnectionDicts ==
    {<<>>} \cup {[n \in {nodo_id} |-> value] : nodo_id \in NodeIds, value \in BOOLEAN}

Matrix == heap.objs[1]

InitMatrix ==
    /\ heap = [objs |-> <<NewConnectionMatrix>>, dicts |-> <<>>]
    /\ draws = NoDraws
    /\ im = NewInnovationManager
    /\ genome = NoGenome
    /\ population = <<>>
    /\ stagnation = <<>>
    /\ op = [name |-> "init", args |-> <<>>, ret |-> NoError]

\* The method returned or raised: r.cm is the object it leaves.
MatrixBecomes(name, nodo_id, r) ==
    /\ Cardinality({p \in DOMAIN r.cm.matriz : r.cm.matriz[p]}) <= MaxConnections
    /\ heap' = [heap EXCEPT !.objs[1] = r.cm]
    /\ op' = [name |-> name, args |-> <<>>, ret |-> r.error]
    /\ UNCHANGED <<im, genome, draws, population, stagnation>>

AgregarNodo ==
    \E nodo_id \in NodeIds :
        MatrixBecomes("agregar_nodo", nodo_id, agregar_nodo(Matrix, nodo_id))

AgregarConexion ==
    \E nodo_desde, nodo_hasta \in NodeIds :
        MatrixBecomes("agregar_conexion", nodo_desde,
                      agregar_conexion(Matrix, nodo_desde, nodo_hasta))

EliminarConexionesNodo ==
    \E nodo_id \in NodeIds :
        MatrixBecomes("eliminar_conexiones_nodo", nodo_id,
                      eliminar_conexiones_nodo(Matrix, nodo_id))

EliminarNodo ==
    \E nodo_id \in NodeIds :
        MatrixBecomes("eliminar_nodo", nodo_id, eliminar_nodo(Matrix, nodo_id))

ModificarConexionesNodo ==
    \E nodo_id \in NodeIds, entrantes, salientes \in ConnectionDicts :
        MatrixBecomes("modificar_conexiones_nodo", nodo_id,
                      modificar_conexiones_nodo(Matrix, nodo_id, entrantes, salientes))

NextMatrix ==
    \/ AgregarNodo
    \/ AgregarConexion
    \/ EliminarConexionesNodo
    \/ EliminarNodo
    \/ ModificarConexionesNodo

SpecMatrix == InitMatrix /\ [][NextMatrix]_vars

\* C28: after any sequence of ConnectionMatrix operations nodo_a_indice
\* and indice_a_nodo are mutually inverse bijections between nodos and
\* 0 .. |nodos| - 1, the matrix is |nodos| x |nodos|, and siguiente_indice
\* is |nodos|.
C28_IndexDense ==
    LET cm == Matrix
        size == Cardinality(cm.nodos)
    IN  /\ DOMAIN cm.nodo_a_indice = cm.nodos
        /\ DOMAIN cm.indice_a_nodo = 0 .. size - 1
        /\ \A n \in cm.nodos : cm.indice_a_nodo[cm.nodo_a_indice[n]] = n
        /\ \A i \in 0 .. size - 1 : cm.nodo_a_indice[cm.indice_a_nodo[i]] = i
        /\ DOMAIN cm.matriz = (0 .. size - 1) \X (0 .. size - 1)
        /\ cm.siguiente_indice = size

\* eliminar_nodo removed the middle one of three nodes and the connection
\* between the other two is still there.
C28_Witness ==
    /\ op.name = "eliminar_nodo"
    /\ Matrix.nodos = {0, 2}
    /\ \E p \in DOMAIN Matrix.matriz : Matrix.matriz[p]

\* C29: whenever the elimination stages of mutate() (mutate_eliminate_node,
\* then mutate_eliminate_connection) remove a node or a connection,
\* prune_orphan_nodes runs on the genome before mutate() returns; the
\* genome mutate() hands back is then one prune_orphan_nodes leaves as it
\* is. Stated of every genome the two stages can be entered with.
C29_PrunedAfterElimination ==
    \A w1 \in EliminateNodeStage(World, DefaultRates.eliminate_node_rate) :
       \A w2 \in EliminateConnectionStage(w1, DefaultRates.eliminate_connection_rate) :
          (w1.g # genome \/ w2.g # w1.g) => prune_orphan_nodes(w2.g) = w2.g

\* The connections of g that g1 no longer has.
Removed(g, g1) == (DOMAIN g.connections) \ (DOMAIN g1.connections)

\* C30: a call of mutate_eliminate_connection removes one connection at
\* most, adds none and leaves the weights of the others alone (a reverted
\* removal is put back with its weight), and the removal it keeps leaves
\* neither a hidden source without outgoing connection nor a hidden target
\* without incoming one. Stated of every genome the runs reach.
C30_EliminatesOneSafeConnection ==
    \A g1 \in mutate_eliminate_connection(genome) :
        /\ Cardinality(Removed(genome, g1)) <= 1
        /\ \A k \in DOMAIN g1.connections :
              k \in DOMAIN genome.connections /\ g1.connections[k] = genome.connections[k]
        /\ \A k \in Removed(genome, g1) : ~OrphansHidden(genome, k)

\* The call can remove a connection of a genome in which another
\* connection holds up a hidden node.
C30_Witness ==
    /\ \E g1 \in mutate_eliminate_connection(genome) : Removed(genome, g1) # {}
    /\ \E k \in DOMAIN genome.connections :
          /\ OrphansHidden(genome, k)
          /\ GeneType(genome.genes[k[2]]) = "hidden"
          /\ \E k2 \in DOMAIN genome.connections : k2 # k /\ k2[1] = k[1]

\* The connections of g that have node as source or target.
Touching(g, node) == {k \in DOMAIN g.connections : k[1] = node \/ k[2] = node}

\* C31: mutate_eliminate_node on a genome with a hidden node removes one
\* hidden node exactly, together with exactly the connections that have it
\* as source or target; every other gene and connection, next_node_id and
\* output_nodes are as before. Stated of every genome the runs reach.
C31_EliminatesOneHiddenNode ==
    get_num_hidden_nodes(genome) > 0 =>
        \A g1 \in mutate_eliminate_node(genome) :
            \E node \in DOMAIN genome.genes :
                /\ GeneType(genome.genes[node]) = "hidden"
                /\ DOMAIN g1.genes = (DOMAIN genome.genes) \ {node}
                /\ \A n \in DOMAIN g1.genes : g1.genes[n] = genome.genes[n]
                /\ DOMAIN g1.connections = (DOMAIN genome.connections) \ Touching(genome, node)
                /\ \A k \in DOMAIN g1.connections : g1.connections[k] = genome.connections[k]
                /\ g1.next_node_id = genome.next_node_id
                /\ g1.output_nodes = genome.output_nodes

\* A hidden node with a connection into it and one out of it, in a genome
\* that has a connection apart from these.
C31_Witness ==
    \E node \in DOMAIN genome.genes :
        /\ GeneType(genome.genes[node]) = "hidden"
        /\ \E k \in DOMAIN genome.connections : k[2] = node
        /\ \E k \in DOMAIN genome.connections : k[1] = node
        /\ (DOMAIN genome.connections) \ Touching(genome, node) # {}
        /\ \E g1 \in mutate_eliminate_node(genome) : node \notin DOMAIN g1.genes

\* The node ids of the output genes of g.
OutputGenes(g) == {n \in DOMAIN g.genes : GeneType(g.genes[n]) = "output"}

\* C32: in the child crossover returns, output_nodes lists exactly the
\* node ids of the output genes the child inherited, each once and in
\* ascending order as the constructor of the fitter parent listed them, so
\* every id of output_nodes is a key of the child's genes with role
\* output.
C32_ChildOutputNodesAreItsOutputGenes ==
    [][Crossover =>
         /\ {genome'.output_nodes[i] : i \in DOMAIN genome'.output_nodes} = OutputGenes(genome')
         /\ \A i, j \in DOMAIN genome'.output_nodes :
               i < j => genome'.output_nodes[i] < genome'.output_nodes[j]]_vars

\* The node ids the connections of g have as source or target.
Endpoints(g) == {k[1] : k \in DOMAIN g.connections} \cup {k[2] : k \in DOMAIN g.connections}

\* C33: the node id mutate_add_node takes for the split point,
\* self.next_node_id, is fresh at the call: it is neither a key of genes
\* nor an endpoint of a connection, in every genome reachable through the
\* mutation operators, pruning and crossover. Stated of the genomes the
\* call splits a connection of.
C33_SplitNodeIdIsFresh ==
    DOMAIN genome.connections # {} =>
        /\ genome.next_node_id \notin DOMAIN genome.genes
        /\ genome.next_node_id \notin Endpoints(genome)

\* C34: after any sequence of updates, whatever happened to the species'
\* best_fitness between them, no species appears twice in sorted_species.
C34_SpeciesTrackedOnce ==
    \A i, j \in DOMAIN stagnation.sm.sorted_species :
       i # j => stagnation.sm.sorted_species[i].spec # stagnation.sm.sorted_species[j].spec

\* The lists of distinct species an update can be called with.
SpeciesLists ==
    {l \in UNION {[1 .. n -> SpeciesIds] : n \in 0 .. NumSpecies} :
        \A i, j \in DOMAIN l : i # j => l[i] # l[j]}

\* C35: whatever updates came before, the keys of the mapping that
\* update(species_list, generation) returns are exactly the species of
\* species_list.
C35_KeysAreTheSpeciesPassed ==
    \A species_list \in SpeciesLists :
       update(stagnation.species, stagnation.sm, species_list, stagnation.generation).keys
          = {species_list[i] : i \in DOMAIN species_list}

\* C36: a call of copy() leaves the innovation manager as it was: the
\* innovations table, next_innovation_number and the genome id counter.
C36_CopyLeavesInnovationManager ==
    [][CallCopy =>
          /\ im'.innovations = im.innovations
          /\ im'.next_innovation_number = im.next_innovation_number
          /\ im'.next_genome_id_counter = im.next_genome_id_counter]_vars

\* ConnectionMatrix.existe_conexion
existe_conexion(cm, nodo_desde, nodo_hasta) ==
    IF nodo_desde \notin cm.nodos \/ nodo_hasta \notin cm.nodos
    THEN FALSE
    ELSE cm.matriz[<<cm.nodo_a_indice[nodo_desde], cm.nodo_a_indice[nodo_hasta]>>]

\* C37: for every node id n, agregar_nodo(n) and eliminar_nodo(n) leave
\* existe_conexion(a, b) as it was for all a and b other than n, and after
\* eliminar_nodo(n) followed by agregar_nodo(n) no connection enters or
\* leaves n.
C37_OtherEdgesPreserved ==
    \A n \in NodeIds :
       LET added == agregar_nodo(Matrix, n).cm
           removed == eliminar_nodo(Matrix, n).cm
           back == agregar_nodo(removed, n).cm
       IN  /\ \A a, b \in NodeIds \ {n} :
                 /\ existe_conexion(added, a, b) = existe_conexion(Matrix, a, b)
                 /\ existe_conexion(removed, a, b) = existe_conexion(Matrix, a, b)
           /\ \A a \in NodeIds :
                 /\ ~existe_conexion(back, a, n)
                 /\ ~existe_conexion(back, n, a)

\* C37 witness: three nodes, a connection between the first and the last
\* and one from the middle node to the last; eliminar_nodo removes the
\* middle node, the index of the last one changes, the connection between
\* the other two is still found, and the node added again has none.
C37_Witness ==
    LET removed == eliminar_nodo(Matrix, 1).cm
        back == agregar_nodo(removed, 1).cm
    IN  /\ Matrix.nodos = {0, 1, 2}
        /\ existe_conexion(Matrix, 0, 2)
        /\ existe_conexion(Matrix, 1, 2)
        /\ removed.nodos = {0, 2}
        /\ removed.nodo_a_indice[2] # Matrix.nodo_a_indice[2]
        /\ existe_conexion(removed, 0, 2)
        /\ back.nodos = {0, 1, 2}
        /\ ~existe_conexion(back, 1, 2)

====
